---- MODULE Spec2Model ----
(***************************************************************************)
(* Block Store (storage/src/block/mod.rs), BlockChain branch view and      *)
(* Chain Service (chain/src/chain_service.rs) of the starcoin node.        *)
(*                                                                         *)
(* Hashes are small integers.  A header is identified by its content hash, *)
(* so a header is represented by its id and its fields are functions of    *)
(* the id: the headers form a binary tree, 1 being a genesis header whose  *)
(* parent is HashValue::zero().                                            *)
(***************************************************************************)
EXTENDS Integers, Sequences, FiniteSets, TLC

\* ---------------------------------------------------------------- bounds
MaxHash == 4
MaxOps == 3
MaxFaults == 1

\* ------------------------------------------------ headers (types/block.rs)
Hashes == 1..MaxHash

ZeroHash == 0

GenesisId == 1

parent_hash(h) == h \div 2

RECURSIVE number(_)
number(h) == IF h <= 1 THEN 0 ELSE number(h \div 2) + 1

difficult(h) == IF h <= 1 THEN 0 ELSE 1 + (h % 2)

RECURSIVE total_difficult(_)
total_difficult(h) == IF h <= 1 THEN 0 ELSE total_difficult(h \div 2) + difficult(h)

\* ------------------------------------------------------- results of calls
Ok(v) == [tag |-> "Ok", val |-> v]

Err == [tag |-> "Err", val |-> <<>>]

Panic == [tag |-> "Panic", val |-> <<>>]

Some(x) == <<x>>

None == <<>>

Contains(s, x) == \E i \in 1..Len(s) : s[i] = x

SeqSet(s) == {s[i] : i \in 1..Len(s)}

\* ------------------------------------------------------------------ state
VARIABLES
    block_store,    \* ids of the blocks stored        (CodecStorage<HashValue, Block>)
    header_store,   \* ids of the headers stored       (CodecStorage<HashValue, BlockHeader>)
    sons_store,     \* parent hash -> list of sons     (CodecStorage<HashValue, Vec<HashValue>>)
    body_store,     \* ids of the bodies stored        (CodecStorage<HashValue, BlockBody>)
    number_store,   \* block number -> block id        (CodecStorage<BlockNumber, HashValue>)
    ops,            \* write calls made so far
    faults,         \* failed writes injected so far
    last,           \* the last Block Store call: operation, arguments, failed writes, result
    branch,         \* a BlockChain branch view: <<id of its current header>>, <<>> before it is made
    cs_head,        \* ChainServiceImpl.head: <<id of its current header>>, <<>> before construction
    cs_branches,    \* ChainServiceImpl.branches: the current header id of each branch
    chain_call,     \* the last BlockChain / Chain Service call: operation, block, verdict, result
    roots,                  \* Roots: [state, accumulator]
    state_sync_task,        \* SyncTask<(HashValue, bool)>
    accumulator_sync_task,  \* SyncTask<HashValue>
    state_nodes,            \* the local state node store: node key -> node
    accumulator_nodes,      \* the local accumulator node store: node key -> node
    fetching,               \* the spawned sync_state_node futures awaiting their peer
    mailbox,                \* the StateSyncTaskEvents sent to the actor and not yet handled
    actor,                  \* "created", "running", "stopped" or "panicked"
    sync_done,              \* sync_metadata.state_sync_done() has succeeded
    resets,                 \* resets handled so far
    sync_call,              \* the last step of the actor
    codec_value,            \* the value handed to a Block Store codec: [kind, value]
    codec_bytes,            \* <<its encoding>>, <<>> before it is encoded
    codec_decoded,          \* <<the decoding of the encoding>>, <<>> before it is decoded
    vm_gas_schedule,        \* StarcoinVM.gas_schedule: Option<CostTable>
    chain_state,            \* the chain state the VM executes on
    vm_call,                \* the last call of the VM: operation, transaction, field and state before, result
    startup_info,           \* the persisted StartupInfo: <<head block id>>, <<>> when there is none
    callers,                \* the save_header calls running on other threads: where each is
    dispatching,            \* exe_state_sync_task while it is suspended: its mutex guard and popped value
    download,               \* the task a SyncBodyEvent spawns: peers, peers contacted, bodies applied, state
    handshaking_peers,      \* Protocol.handshaking_peers: connected, no Status accepted yet
    open_peers,             \* the peers GenericProto has an open substream with
    closing_peers,          \* the peers behaviour.disconnect_peer was called for, not yet closed
    stream_opened,          \* NotificationStreamOpened events emitted per peer since it connected
    protocol_call           \* the last event the Protocol handled and its outcome

store == <<block_store, header_store, sons_store, body_store, number_store>>

chain == <<branch, cs_head, cs_branches, chain_call>>

sync == <<roots, state_sync_task, accumulator_sync_task, state_nodes, accumulator_nodes,
          fetching, mailbox, actor, sync_done, resets, sync_call>>

\* the state of the components an action of another component leaves alone
codec == <<codec_value, codec_bytes, codec_decoded>>

vm == <<vm_gas_schedule, chain_state, vm_call>>

\* the persisted startup record and the threads sharing the Block Store
\* Protocol (network-p2p/src/protocol.rs)
p2p == <<handshaking_peers, open_peers, closing_peers, stream_opened, protocol_call>>

shared == <<startup_info, callers, dispatching, download, p2p>>

rest == <<sync, codec, vm, shared>>

vars == <<block_store, header_store, sons_store, body_store, number_store, ops, faults, last,
          branch, cs_head, cs_branches, chain_call, rest>>

NoCall == [op |-> "none", args |-> <<>>, fails |-> {}, ret |-> Ok(None)]

Call(op, args, fails, ret) == [op |-> op, args |-> args, fails |-> fails, ret |-> ret]

\* ------------------------------------------- key/value store (spec 4.1)
\* put(key, value) -> Result<()>: the write either lands whole or not at all.
put_key(S, k, ok) == IF ok THEN S \cup {k} ELSE S

put_value(M, k, v, ok) ==
    IF ok THEN [x \in DOMAIN M \cup {k} |-> IF x = k THEN v ELSE M[x]] ELSE M

\* get_len(): the number of entries of the column.
get_len(M) == Cardinality(DOMAIN M)

\* ------------------------------------------------------------ Block Store
get_sons(sons, parent) ==
    IF parent \in DOMAIN sons THEN Ok(sons[parent]) ELSE Err

\* Variant: an existing entry is cleared of the son and the push is left out.
put_sons_retain(sons, parent, son, ok) ==
    LET got == get_sons(sons, parent)
        vec_hash == IF got.tag = "Ok"
                        THEN SelectSeq(got.val, LAMBDA x : x # son) ELSE <<son>>
    IN  put_value(sons, parent, vec_hash, ok)

put_sons(sons, parent, son, ok) ==
    LET got == get_sons(sons, parent)
        vec_hash == IF got.tag = "Ok" THEN Append(got.val, son) ELSE <<son>>
    IN  put_value(sons, parent, vec_hash, ok)

\* The writes a call attempts, by the column each goes to.
SaveHeaderWrites == {"header", "sons"}

CommitBlockWrites == {"header", "sons", "number", "body", "block"}

\* A write call with the writes in fails failing is within the bounds.
Within(fails) ==
    /\ ops < MaxOps
    /\ faults + Cardinality(fails) <= MaxFaults

Count(fails) ==
    /\ ops' = ops + 1
    /\ faults' = faults + Cardinality(fails)

save_header_effect(h, fails) ==
    /\ header_store' = put_key(header_store, h, "header" \notin fails)
    /\ sons_store' = put_sons(sons_store, parent_hash(h), h, "sons" \notin fails)

SaveHeader(h, fails) ==
    /\ Within(fails)
    /\ save_header_effect(h, fails)
    /\ Count(fails)
    /\ last' = Call("save_header", <<h>>, fails, Ok(None))
    /\ UNCHANGED <<block_store, body_store, number_store>>
    /\ UNCHANGED chain
    /\ UNCHANGED rest

\* commit_block returns what its last write, save(block), returns.
commit_block_result(fails) == IF "block" \notin fails THEN Ok(None) ELSE Err

commit_block_effect(b, fails) ==
    /\ save_header_effect(b, fails)
    /\ number_store' = put_value(number_store, number(b), b, "number" \notin fails)
    /\ body_store' = put_key(body_store, b, "body" \notin fails)
    /\ block_store' = put_key(block_store, b, "block" \notin fails)

CommitBlock(b, fails) ==
    /\ Within(fails)
    /\ commit_block_effect(b, fails)
    /\ Count(fails)
    /\ last' = Call("commit_block", <<b>>, fails, commit_block_result(fails))
    /\ UNCHANGED chain
    /\ UNCHANGED rest

\* ---------------------------------- save_header on concurrent threads
\* BlockStore is shared (&self); get_sons holds the read lock of sons_store
\* for its read only, and put_sons takes the write lock for its put only.
MaxThreads == 2

Threads == 1..MaxThreads

NotCalling == [pc |-> "idle", header |-> ZeroHash, got |-> Err]

\* save_header: header_store.put(header.id(), header)
SaveHeaderPutHeader(t, h) ==
    /\ callers[t].pc = "idle"
    /\ ops < MaxOps
    /\ ops' = ops + 1
    /\ header_store' = put_key(header_store, h, TRUE)
    /\ callers' = [callers EXCEPT ![t] = [pc |-> "get_sons", header |-> h, got |-> Err]]
    /\ UNCHANGED <<block_store, sons_store, body_store, number_store, faults, last, startup_info, dispatching, download, p2p>>
    /\ UNCHANGED <<chain, sync, codec, vm>>

\* put_sons: self.get_sons(parent_hash), under the read lock
SaveHeaderGetSons(t) ==
    /\ callers[t].pc = "get_sons"
    /\ callers' = [callers EXCEPT ![t].pc = "put",
                                  ![t].got = get_sons(sons_store, parent_hash(callers[t].header))]
    /\ UNCHANGED <<store, ops, faults, last, startup_info, dispatching, download, p2p>>
    /\ UNCHANGED <<chain, sync, codec, vm>>

\* put_sons: sons_store.write().unwrap().put(parent_hash, vec_hash) with the
\* list read before, then save_header returns.
SaveHeaderPutSons(t) ==
    /\ callers[t].pc = "put"
    /\ LET h == callers[t].header
           got == callers[t].got
           vec_hash == IF got.tag = "Ok" THEN Append(got.val, h) ELSE <<h>>
       IN  /\ sons_store' = put_value(sons_store, parent_hash(h), vec_hash, TRUE)
           /\ last' = Call("save_header", <<h>>, {}, Ok(None))
    /\ callers' = [callers EXCEPT ![t] = NotCalling]
    /\ UNCHANGED <<block_store, header_store, body_store, number_store, ops, faults, startup_info, dispatching, download, p2p>>
    /\ UNCHANGED <<chain, sync, codec, vm>>

\* ---------------------------------------------------- Block Store lookups
get_block_header_by_hash(block_id) ==
    Ok(IF block_id \in header_store THEN Some(block_id) ELSE None)

get_block_header_by_number(n) ==
    IF n \in DOMAIN number_store
        THEN get_block_header_by_hash(number_store[n])
        ELSE Err

get_block_by_number(n) ==
    IF n \in DOMAIN number_store
        THEN Ok(IF number_store[n] \in block_store THEN Some(number_store[n]) ELSE None)
        ELSE Ok(None)

\* Variant: the block asked for is pushed like every other visited header.
RECURSIVE branch_hashes_loop_push_all(_, _, _)
branch_hashes_loop_push_all(block_id, temp_block_id, vev_hash) ==
    IF temp_block_id \notin header_store THEN Err
    ELSE LET pushed == Append(vev_hash, temp_block_id)
             sons == get_sons(sons_store, parent_hash(temp_block_id))
         IN  IF sons.tag # "Ok" THEN Err
             ELSE IF Len(sons.val) > 1 THEN Ok(pushed)
             ELSE branch_hashes_loop_push_all(block_id, parent_hash(temp_block_id), pushed)

\* Variant: a hash with no header ends the walk with the path so far.
RECURSIVE branch_hashes_loop_to_genesis(_, _, _)
branch_hashes_loop_to_genesis(block_id, temp_block_id, vev_hash) ==
    IF temp_block_id \notin header_store THEN Ok(vev_hash)
    ELSE LET pushed == IF temp_block_id # block_id
                           THEN Append(vev_hash, temp_block_id) ELSE vev_hash
             sons == get_sons(sons_store, parent_hash(temp_block_id))
         IN  IF sons.tag # "Ok" THEN Err
             ELSE IF Len(sons.val) > 1 THEN Ok(pushed)
             ELSE branch_hashes_loop_to_genesis(block_id, parent_hash(temp_block_id), pushed)

\* The loop of get_branch_hashes, from the header temp_block_id on.
RECURSIVE branch_hashes_loop(_, _, _)
branch_hashes_loop(block_id, temp_block_id, vev_hash) ==
    IF temp_block_id \notin header_store THEN Err
    ELSE LET pushed == IF temp_block_id # block_id
                           THEN Append(vev_hash, temp_block_id) ELSE vev_hash
             sons == get_sons(sons_store, parent_hash(temp_block_id))
         IN  IF sons.tag # "Ok" THEN Err
             ELSE IF Len(sons.val) > 1 THEN Ok(pushed)
             ELSE branch_hashes_loop(block_id, parent_hash(temp_block_id), pushed)

get_branch_hashes(block_id) == branch_hashes_loop(block_id, block_id, <<>>)

get_relationship(block_id1, block_id2) ==
    LET sons == get_sons(sons_store, block_id1)
    IN  Ok(IF sons.tag = "Ok" /\ Contains(sons.val, block_id2)
               THEN Some(block_id1) ELSE None)

\* The inner loop of get_common_ancestor: walk block 2's ancestry until it
\* lands in sons1.  It ends either found or with an error.
RECURSIVE ancestor_in_sons(_, _)
ancestor_in_sons(sons1, parent_id2) ==
    IF parent_id2 = ZeroHash THEN Err
    ELSE IF Contains(sons1, parent_id2) THEN Ok(Some(parent_id2))
    ELSE IF parent_id2 \notin header_store THEN Err
    ELSE ancestor_in_sons(sons1, parent_hash(parent_id2))

\* Variant: the son that block 2's walk landed on is returned, not its parent.
RECURSIVE common_ancestor_loop_son(_, _)
common_ancestor_loop_son(id1, block_id2) ==
    IF id1 \notin header_store THEN Err
    ELSE LET parent_id1 == parent_hash(id1)
             sons1 == get_sons(sons_store, parent_id1)
         IN  IF parent_id1 = ZeroHash THEN Err
             ELSE IF sons1.tag # "Ok" THEN Err
             ELSE IF Len(sons1.val) > 1
                 THEN ancestor_in_sons(sons1.val, block_id2)
             ELSE common_ancestor_loop_son(parent_id1, block_id2)

\* The outer loop of get_common_ancestor, from the header id1 on.
RECURSIVE common_ancestor_loop(_, _)
common_ancestor_loop(id1, block_id2) ==
    IF id1 \notin header_store THEN Err
    ELSE LET parent_id1 == parent_hash(id1)
             sons1 == get_sons(sons_store, parent_id1)
         IN  IF parent_id1 = ZeroHash THEN Err
             ELSE IF sons1.tag # "Ok" THEN Err
             ELSE IF Len(sons1.val) > 1
                 THEN IF ancestor_in_sons(sons1.val, block_id2).tag = "Ok"
                          THEN Ok(Some(parent_id1)) ELSE Err
             ELSE common_ancestor_loop(parent_id1, block_id2)

get_common_ancestor(block_id1, block_id2) ==
    IF get_relationship(block_id1, block_id2).val # None
        THEN get_relationship(block_id1, block_id2)
    ELSE IF get_relationship(block_id2, block_id1).val # None
        THEN get_relationship(block_id2, block_id1)
    ELSE common_ancestor_loop(block_id1, block_id2)

\* Variant: the header at number max_number is looked up, not max_number - 1.
get_latest_block_header_at_len ==
    LET max_number == get_len(number_store)
    IN  IF max_number = 0 THEN Ok(None)
        ELSE get_block_header_by_number(max_number)

get_latest_block_header ==
    LET max_number == get_len(number_store)
    IN  IF max_number = 0 THEN Ok(None)
        ELSE get_block_header_by_number(max_number - 1)

\* u64 subtraction with the build's overflow checks off: the result modulo
\* 2^64, the residue of 2^64 - 1 being written -1.
wrapping_sub(a, b) == IF a >= b THEN a - b ELSE -1

\* max_number - 1 panics under overflow checks (debug builds) and wraps
\* without them (release builds); unwrap() panics on None.
get_latest_block(overflow_checks) ==
    LET max_number == get_len(number_store)
    IN  IF max_number < 1 /\ overflow_checks THEN Panic
        ELSE LET block == get_block_by_number(wrapping_sub(max_number, 1))
             IN  IF block.tag # "Ok" THEN Err
                 ELSE IF block.val = None THEN Panic
                 ELSE Ok(block.val[1])

Query(op, args, ret) ==
    /\ last' = Call(op, args, {}, ret)
    /\ UNCHANGED <<store, ops, faults>>
    /\ UNCHANGED chain
    /\ UNCHANGED rest

GetBranchHashes(block_id) ==
    Query("get_branch_hashes", <<block_id>>, get_branch_hashes(block_id))

GetCommonAncestor(block_id1, block_id2) ==
    Query("get_common_ancestor", <<block_id1, block_id2>>,
          get_common_ancestor(block_id1, block_id2))

GetLatestBlockHeader ==
    Query("get_latest_block_header", <<>>, get_latest_block_header)

GetLatestBlock(overflow_checks) ==
    Query("get_latest_block", <<>>, get_latest_block(overflow_checks))

\* number_store.get(number).unwrap(): a failed read of the index panics.
GetBlockHeaderByNumber(n, read_ok) ==
    Query("get_block_header_by_number", <<n, read_ok>>,
          IF read_ok THEN get_block_header_by_number(n) ELSE Panic)

\* number_store.get(number)?: a failed read of the index is returned.
GetBlockByNumber(n, read_ok) ==
    Query("get_block_by_number", <<n, read_ok>>,
          IF read_ok THEN get_block_by_number(n) ELSE Err)

\* ------------------------------------------- BlockChain (spec 4.3, spec 6)
\* What Consensus and the Executor make of a block on a branch.
Verdicts == {"ok", "bad_header", "bad_execution", "root_mismatch"}

NoChainCall == [op |-> "none", block |-> ZeroHash, verdict |-> "ok", ret |-> Ok(None)]

ChainCall(op, block, verdict, ret) ==
    [op |-> op, block |-> block, verdict |-> verdict, ret |-> ret]

\* BlockChain::new(config, storage, head_block_id): the chain at that block,
\* at genesis when there is none.
blockchain_new(head_block_id) ==
    IF head_block_id = None THEN Some(GenesisId) ELSE head_block_id

\* Variant: the block is persisted before it is checked.
apply_persists_unchecked(verdict) == TRUE

\* apply persists the block only once the header is verified, the
\* transactions are executed and the roots match.
apply_persists(verdict) == verdict = "ok"

apply_result(verdict, fails) ==
    IF verdict # "ok" THEN Err ELSE commit_block_result(fails)

BlockChainNew(head_block_id) ==
    /\ head_block_id # None => head_block_id[1] \in block_store
    /\ branch' = blockchain_new(head_block_id)
    /\ chain_call' = ChainCall("BlockChain::new", ZeroHash, "ok", Ok(None))
    /\ UNCHANGED <<store, ops, faults, last, cs_head, cs_branches>>
    /\ UNCHANGED rest

BlockChainApply(block, verdict, fails) ==
    /\ branch # None
    /\ IF apply_persists(verdict)
           THEN /\ Within(fails)
                /\ commit_block_effect(block, fails)
                /\ Count(fails)
           ELSE /\ fails = {}
                /\ UNCHANGED <<store, ops, faults>>
    /\ branch' = IF apply_result(verdict, fails).tag = "Ok" THEN Some(block) ELSE branch
    /\ chain_call' = ChainCall("apply", block, verdict, apply_result(verdict, fails))
    /\ UNCHANGED <<last, cs_head, cs_branches>>
    /\ UNCHANGED rest

\* ------------------------------------------------------- Chain Service
\* unimplemented!()
find_or_fork(header) == Panic

\* todo!()
select_head == Panic

\* find_or_fork is evaluated first and panics: apply, select_head and the
\* closing todo!() are never reached.
try_connect(block) ==
    IF find_or_fork(block).tag = "Panic" THEN Panic ELSE select_head

ChainServiceNew ==
    /\ LET latest_header == get_latest_block_header
       IN  IF latest_header.tag = "Ok"
               THEN /\ cs_head' = blockchain_new(latest_header.val)
                    /\ cs_branches' = <<>>
                    /\ chain_call' = ChainCall("ChainServiceImpl::new", ZeroHash, "ok", Ok(None))
               ELSE /\ chain_call' = ChainCall("ChainServiceImpl::new", ZeroHash, "ok", Err)
                    /\ UNCHANGED <<cs_head, cs_branches>>
    /\ UNCHANGED <<store, ops, faults, last, branch>>
    /\ UNCHANGED rest

\* Storage::save_startup_info
SaveStartupInfo(head) ==
    /\ head \in block_store
    /\ startup_info' = Some(head)
    /\ UNCHANGED <<store, ops, faults, last, callers, dispatching, download, p2p>>
    /\ UNCHANGED <<chain, sync, codec, vm>>

TryConnect(block, verdict) ==
    /\ cs_head # None
    /\ chain_call' = ChainCall("try_connect", block, verdict, try_connect(block))
    /\ UNCHANGED <<store, ops, faults, last, branch, cs_head, cs_branches>>
    /\ UNCHANGED rest

\* ------------------------- State-Sync Task (sync/src/state_sync/mod.rs)
\* Tree nodes are content-addressed: a node is represented by its hash, and
\* its variant, its children and its leaf payload are functions of the hash.
\* The nodes form a binary tree: node n is internal while it has a child
\* among 2n and 2n+1, and a leaf otherwise.
MaxNode == 4
MaxPeer == 1
MaxResets == 1

StateNodes == 1..MaxNode

AccumulatorNodes == 1..MaxNode

\* SPARSE_MERKLE_PLACEHOLDER_HASH, ACCUMULATOR_PLACEHOLDER_HASH
PlaceholderHash == 0

SelfPeerId == 0

Peers == 1..MaxPeer

all_child(n) == SelectSeq(<<2 * n, 2 * n + 1>>, LAMBDA c : c <= MaxNode)

inner(n) == IF all_child(n) # <<>> THEN "Internal" ELSE "Leaf"

\* AccountState::try_from(leaf.blob()) and its storage_roots(): a blob may
\* fail to decode, or hold an absent root, the placeholder and the root of a
\* storage tree.
account_state(n) ==
    IF n % 2 = 0 THEN Err
    ELSE Ok(<<None, Some(PlaceholderHash), Some(n - 1)>>)

\* AccumulatorNode::Internal(n): n.left(), n.right(); an absent child is the
\* placeholder.
left(n) == IF 2 * n <= MaxNode THEN 2 * n ELSE PlaceholderHash

right(n) == IF 2 * n + 1 <= MaxNode THEN 2 * n + 1 ELSE PlaceholderHash

\* SyncTask<T>
SyncTask_new == [wait_2_sync |-> <<>>, syncing_nodes |-> <<>>]

is_empty(t) == Len(t.wait_2_sync) = 0 /\ DOMAIN t.syncing_nodes = {}

\* Variant: the value is put at the front of the queue.
push_front(t, value) == [t EXCEPT !.wait_2_sync = <<value>> \o @]

push_back(t, value) == [t EXCEPT !.wait_2_sync = Append(@, value)]

pop_front(t) == [t EXCEPT !.wait_2_sync = Tail(@)]

\* Variant: only the pending queue is cleared.
clear_pending(t) == [t EXCEPT !.wait_2_sync = <<>>]

clear(t) == [wait_2_sync |-> <<>>, syncing_nodes |-> <<>>]

insert(t, peer_id, value) ==
    [t EXCEPT !.syncing_nodes =
        [p \in DOMAIN @ \cup {peer_id} |-> IF p = peer_id THEN value ELSE @[p]]]

\* Variant: the in-flight entry is left in the map.
remove_kept(t, peer_id) == t

remove(t, peer_id) ==
    [t EXCEPT !.syncing_nodes = [p \in DOMAIN @ \ {peer_id} |-> @[p]]]

RECURSIVE push_back_all(_, _)
push_back_all(t, values) ==
    IF values = <<>> THEN t
    ELSE push_back_all(push_back(t, Head(values)), Tail(values))

\* StateSyncTaskEvent::new_state
new_state(peer_id, node_key, state_node) ==
    [peer_id |-> peer_id, node_key |-> node_key, state_node |-> state_node]

Request(peer_id, node_key) == [peer_id |-> peer_id, node_key |-> node_key]

\* The node a fetch hands to the actor: the peer's node when its own hash is
\* the requested key, None when the hash differs or the fetch failed.
sync_state_node_unchecked(node_key, response) ==
    IF response.tag = "Ok" THEN Some(response.val[1]) ELSE None

sync_state_node(node_key, response) ==
    IF response.tag = "Ok" /\ node_key = response.val[1]
        THEN Some(response.val[1])
        ELSE None

sync_end_in_flight_only(t) == DOMAIN t.syncing_nodes = {}

sync_end(t) == is_empty(t)

Exe(t, sent, spawned, fate, peer_id) ==
    [task |-> t, sent |-> sent, spawned |-> spawned, fate |-> fate, peer_id |-> peer_id]

\* What exe_state_sync_task does with the popped value: lock is the task
\* after pop_front, best_peer the answer of network_service.best_peer().
\* A node found in the local store is sent to the actor as delivered by
\* self; otherwise the key goes to the best peer, when there is one and it
\* is not this node.
dispatch(lock, value, nodes, best_peer) ==
    LET node_key == value[1]
    IN  IF node_key \in DOMAIN nodes
            THEN Exe(insert(lock, SelfPeerId, value),
                     <<new_state(SelfPeerId, node_key, Some(nodes[node_key]))>>,
                     <<>>, "local", SelfPeerId)
        ELSE IF best_peer.tag # "Ok"
            THEN Exe(lock, <<>>, <<>>, "panic", SelfPeerId)
        ELSE IF best_peer.val = None
            THEN Exe(lock, <<>>, <<>>, "dropped", SelfPeerId)
        ELSE IF best_peer.val[1] = SelfPeerId
            THEN Exe(lock, <<>>, <<>>, "dropped", SelfPeerId)
        ELSE Exe(insert(lock, best_peer.val[1], value), <<>>,
                 <<Request(best_peer.val[1], node_key)>>,
                 "dispatched", best_peer.val[1])

RECURSIVE exe_state_sync_task_drain(_, _, _)
exe_state_sync_task_drain(t, nodes, best_peer) ==
    IF t.wait_2_sync = <<>> THEN Exe(t, <<>>, <<>>, "idle", SelfPeerId)
    ELSE LET one == dispatch(pop_front(t), Head(t.wait_2_sync), nodes, best_peer)
             more == exe_state_sync_task_drain(one.task, nodes, best_peer)
         IN  Exe(more.task, one.sent \o more.sent, one.spawned \o more.spawned,
                 one.fate, one.peer_id)

\* exe_state_sync_task on task t: the task it leaves, the events it sends
\* to the actor, the fetches it spawns, and what became of the popped key.
exe_state_sync_task(t, nodes, best_peer) ==
    IF t.wait_2_sync = <<>> THEN Exe(t, <<>>, <<>>, "idle", SelfPeerId)
    ELSE dispatch(pop_front(t), Head(t.wait_2_sync), nodes, best_peer)

\* The keys a persisted state node enqueues.
children_to_sync_none(state_node, is_global) == <<>>

children_to_sync(state_node, is_global) ==
    IF inner(state_node) = "Leaf"
        THEN IF is_global /\ account_state(state_node).tag = "Ok"
                 THEN LET storage_roots == SelectSeq(account_state(state_node).val,
                              LAMBDA key : key # None /\ key[1] # PlaceholderHash)
                      IN  [i \in 1..Len(storage_roots) |-> <<storage_roots[i][1], FALSE>>]
                 ELSE <<>>
        ELSE [i \in 1..Len(all_child(state_node)) |-> <<all_child(state_node)[i], is_global>>]

Handled(t, nodes, outcome) == [task |-> t, nodes |-> nodes, outcome |-> outcome]

\* handle_state_sync on task t: the task and the node store it leaves.
handle_state_sync(t, nodes, task_event, put_ok) ==
    IF task_event.peer_id \notin DOMAIN t.syncing_nodes
        THEN Handled(t, nodes, "discard")
    ELSE LET entry == t.syncing_nodes[task_event.peer_id]
             is_global == entry[2]
             current_node_key == task_event.node_key
             lock == remove(t, task_event.peer_id)
         IN  IF entry[1] # current_node_key
                 THEN Handled(t, nodes, "hash not match")
             ELSE IF task_event.state_node = None
                 THEN Handled(push_back(lock, <<current_node_key, is_global>>), nodes, "requeue")
             ELSE IF ~put_ok
                 THEN Handled(push_back(lock, <<current_node_key, is_global>>), nodes, "put failed")
             ELSE Handled(push_back_all(lock, children_to_sync(task_event.state_node[1], is_global)),
                          put_value(nodes, current_node_key, task_event.state_node[1], TRUE),
                          "stored")

\* reset on the state task.
reset(t, state_root) == push_back(clear(t), <<state_root, TRUE>>)

NoEvent == None

SyncCall(op, event, handled, fate, peer_id) ==
    [op |-> op, event |-> event, handled |-> handled, fate |-> fate, peer_id |-> peer_id]

BestPeerResults == {Err, Ok(None)} \cup {Ok(Some(p)) : p \in {SelfPeerId} \cup Peers}

\* What a peer answers to a request: an error, the node of that key or
\* another node.
Responses(node_key) == {Err, Ok(<<node_key>>), Ok(<<(node_key % MaxNode) + 1>>)}

blocks == <<store, ops, faults, last, chain, shared>>

\* Actor::started
Started(best_peer) ==
    /\ actor = "created"
    /\ LET e == exe_state_sync_task(state_sync_task, state_nodes, best_peer)
       IN  /\ state_sync_task' = e.task
           /\ mailbox' = mailbox \o e.sent
           /\ fetching' = fetching \o e.spawned
           /\ actor' = IF e.fate = "panic" THEN "panicked" ELSE "running"
           /\ sync_call' = SyncCall("started", NoEvent, "none", e.fate, e.peer_id)
    /\ UNCHANGED <<roots, accumulator_sync_task, state_nodes, accumulator_nodes, sync_done, resets>>
    /\ UNCHANGED <<blocks, codec, vm>>

\* A spawned sync_state_node completes: the peer's answer, checked, is sent
\* to the actor; try_send fails once the actor is gone.
Respond(i, response) ==
    /\ i \in 1..Len(fetching)
    /\ LET req == fetching[i]
       IN  /\ fetching' = [j \in 1..(Len(fetching) - 1) |->
                              IF j < i THEN fetching[j] ELSE fetching[j + 1]]
           /\ mailbox' = IF actor \in {"stopped", "panicked"} THEN mailbox
                         ELSE Append(mailbox, new_state(req.peer_id, req.node_key,
                                         sync_state_node(req.node_key, response)))
    /\ UNCHANGED <<roots, state_sync_task, accumulator_sync_task, state_nodes,
                   accumulator_nodes, actor, sync_done, resets, sync_call>>
    /\ UNCHANGED <<blocks, codec, vm>>

\* Handler<StateSyncTaskEvent>::handle
Handle(best_peer, put_ok, done_ok) ==
    /\ actor = "running"
    /\ mailbox # <<>>
    /\ LET task_event == Head(mailbox)
           h == handle_state_sync(state_sync_task, state_nodes, task_event, put_ok)
           e == exe_state_sync_task(h.task, h.nodes, best_peer)
       IN  /\ state_nodes' = h.nodes
           /\ IF sync_end(h.task)
                  THEN /\ state_sync_task' = h.task
                       /\ mailbox' = Tail(mailbox)
                       /\ sync_done' = (sync_done \/ done_ok)
                       /\ actor' = IF done_ok THEN "stopped" ELSE actor
                       /\ sync_call' = SyncCall("handle", Some(task_event), h.outcome, "end", SelfPeerId)
                       /\ UNCHANGED fetching
                  ELSE /\ state_sync_task' = e.task
                       /\ mailbox' = Tail(mailbox) \o e.sent
                       /\ fetching' = fetching \o e.spawned
                       /\ actor' = IF e.fate = "panic" THEN "panicked" ELSE actor
                       /\ sync_call' = SyncCall("handle", Some(task_event), h.outcome, e.fate, e.peer_id)
                       /\ UNCHANGED sync_done
    /\ UNCHANGED <<roots, accumulator_sync_task, accumulator_nodes, resets>>
    /\ UNCHANGED <<blocks, codec, vm>>

\* Handler<StateSyncEvent>::handle
Reset(state_root, accumulator_root) ==
    /\ actor = "running"
    /\ resets < MaxResets
    /\ resets' = resets + 1
    /\ state_sync_task' = reset(state_sync_task, state_root)
    /\ roots' = [state |-> state_root, accumulator |-> accumulator_root]
    /\ sync_call' = SyncCall("reset", NoEvent, "none", "none", SelfPeerId)
    /\ UNCHANGED <<accumulator_sync_task, state_nodes, accumulator_nodes, fetching, mailbox,
                   actor, sync_done>>
    /\ UNCHANGED <<blocks, codec, vm>>

\* StateSyncTaskActor::launch
launch(state_root, accumulator_root, nodes) ==
    /\ roots = [state |-> state_root, accumulator |-> accumulator_root]
    /\ state_sync_task = push_back(SyncTask_new, <<state_root, TRUE>>)
    /\ accumulator_sync_task = push_back(SyncTask_new, accumulator_root)
    /\ state_nodes = nodes
    /\ accumulator_nodes = <<>>
    /\ fetching = <<>>
    /\ mailbox = <<>>
    /\ actor = "created"
    /\ sync_done = FALSE
    /\ resets = 0
    /\ sync_call = SyncCall("launch", NoEvent, "none", "none", SelfPeerId)

\* exe_state_sync_task in steps.  The function takes the task's mutex at
\* its first line and keeps the guard to its last; for a node that is not
\* in the local store it blocks on network_service.best_peer() in between.
NotDispatching == [waiting |-> FALSE, lock |-> FALSE, value |-> None]

\* The value at the head of the pending queue is not in the local store.
needs_best_peer(t, nodes) ==
    t.wait_2_sync # <<>> /\ Head(t.wait_2_sync)[1] \notin DOMAIN nodes

\* Actor::started, up to the best-peer lookup or, without one, to its end.
StartedAwait ==
    /\ actor = "created"
    /\ ~dispatching.waiting
    /\ IF needs_best_peer(state_sync_task, state_nodes)
           THEN /\ state_sync_task' = pop_front(state_sync_task)
                /\ dispatching' = [waiting |-> TRUE, lock |-> TRUE,
                                   value |-> Some(Head(state_sync_task.wait_2_sync))]
                /\ sync_call' = SyncCall("started", NoEvent, "none", "lookup", SelfPeerId)
                /\ UNCHANGED <<roots, accumulator_sync_task, state_nodes, accumulator_nodes,
                               fetching, mailbox, actor, sync_done, resets>>
                /\ UNCHANGED <<store, ops, faults, last, chain, startup_info, callers, download, p2p, codec, vm>>
           ELSE Started(Ok(None))

\* Handler<StateSyncTaskEvent>::handle, up to the best-peer lookup or,
\* without one, to its end.
HandleAwait(put_ok, done_ok) ==
    /\ actor = "running"
    /\ mailbox # <<>>
    /\ ~dispatching.waiting
    /\ LET task_event == Head(mailbox)
           h == handle_state_sync(state_sync_task, state_nodes, task_event, put_ok)
       IN  IF ~sync_end(h.task) /\ needs_best_peer(h.task, h.nodes)
               THEN /\ state_nodes' = h.nodes
                    /\ state_sync_task' = pop_front(h.task)
                    /\ mailbox' = Tail(mailbox)
                    /\ dispatching' = [waiting |-> TRUE, lock |-> TRUE,
                                       value |-> Some(Head(h.task.wait_2_sync))]
                    /\ sync_call' = SyncCall("handle", Some(task_event), h.outcome, "lookup", SelfPeerId)
                    /\ UNCHANGED <<roots, accumulator_sync_task, accumulator_nodes, fetching,
                                   actor, sync_done, resets>>
                    /\ UNCHANGED <<store, ops, faults, last, chain, startup_info, callers, download, p2p, codec, vm>>
               ELSE Handle(Ok(None), put_ok, done_ok)

\* network_service.best_peer() answers: the rest of exe_state_sync_task.
\* A failed lookup panics in unwrap(), which drops the guard too.
BestPeerReturns(best_peer) ==
    /\ dispatching.waiting
    /\ LET e == dispatch(state_sync_task, dispatching.value[1], state_nodes, best_peer)
       IN  /\ state_sync_task' = e.task
           /\ fetching' = fetching \o e.spawned
           /\ actor' = IF e.fate = "panic" THEN "panicked" ELSE "running"
           /\ sync_call' = [sync_call EXCEPT !.fate = e.fate, !.peer_id = e.peer_id]
    /\ dispatching' = NotDispatching
    /\ UNCHANGED <<roots, accumulator_sync_task, state_nodes, accumulator_nodes, mailbox,
                   sync_done, resets>>
    /\ UNCHANGED <<store, ops, faults, last, chain, startup_info, callers, download, p2p, codec, vm>>

\* Handler<StateSyncEvent>::handle, which the actor runs between handlers.
ResetBetween(state_root, accumulator_root) ==
    /\ ~dispatching.waiting
    /\ Reset(state_root, accumulator_root)

\* ------------------------- Download Body (sync/src/download_body.rs)
\* A SyncBodyEvent carries a list of up to MaxBodyPeers peers.
MaxBodyPeers == 3

BodyPeers == 1..MaxBodyPeers

NoDownload == [peers |-> <<>>, contacted |-> <<>>, applied |-> <<>>, state |-> "none"]

\* What send_request(peer, GetDataByHash, timeout).await gives: an error
\* (the request failed or timed out), a batch of bodies or another response.
BodyAnswers == {Err, Ok("BatchHeaderAndBodyMsg"), Ok("Other")}

\* Handler<SyncBodyEvent>::handle: the request is built and the loop over
\* the peers is spawned.
SyncBody(peers) ==
    /\ download.state = "none"
    /\ download' = [peers |-> peers, contacted |-> <<>>, applied |-> <<>>,
                    state |-> IF peers = <<>> THEN "ended" ELSE "running"]
    /\ UNCHANGED <<store, ops, faults, last, chain, startup_info, callers, dispatching, p2p>>
    /\ UNCHANGED <<sync, codec, vm>>

\* One turn of the spawned loop: the next peer is sent the request and its
\* answer is awaited and unwrapped; a batch of bodies goes to do_blocks and
\* ends the loop.
SendRequest(answer) ==
    /\ download.state = "running"
    /\ LET peer == download.peers[Len(download.contacted) + 1]
           contacted == Append(download.contacted, peer)
       IN  download' =
               IF answer.tag # "Ok"
                   THEN [download EXCEPT !.contacted = contacted, !.state = "panicked"]
               ELSE IF answer.val = "BatchHeaderAndBodyMsg"
                   THEN [download EXCEPT !.contacted = contacted,
                                         !.applied = Append(@, peer), !.state = "ended"]
               ELSE [download EXCEPT !.contacted = contacted,
                                     !.state = IF contacted = download.peers
                                                   THEN "ended" ELSE "running"]
    /\ UNCHANGED <<store, ops, faults, last, chain, startup_info, callers, dispatching, p2p>>
    /\ UNCHANGED <<sync, codec, vm>>

\* --------------------------------- Protocol (network-p2p/src/protocol.rs)
MaxRemote == 2

Remotes == 1..MaxRemote

CURRENT_VERSION == 1

MIN_VERSION == 1

\* message::generic::Status, without the PeerInfo it carries
Status(version, min_supported_version, genesis_hash) ==
    [version |-> version, min_supported_version |-> min_supported_version,
     genesis_hash |-> genesis_hash]

\* The Status messages a remote may send: versions around the supported
\* range, and the local genesis hash or another one.
Statuses ==
    {Status(version, min_supported_version, genesis_hash) :
        version \in 0..(CURRENT_VERSION + 1),
        min_supported_version \in 0..(CURRENT_VERSION + 1),
        genesis_hash \in {GenesisId, GenesisId + 1}}

\* ContextData.peers: nothing is ever inserted into it.
context_data_peers == {}

ProtocolCall(op, who, status, outcome, report, disconnect) ==
    [op |-> op, who |-> who, status |-> status, outcome |-> outcome,
     report |-> report, disconnect |-> disconnect]

NoProtocolCall == ProtocolCall("new", 0, None, "None", "none", FALSE)

\* Variant: the handshaking entry is looked up and left in place.
handshaking_kept(peers, who) == peers

\* self.handshaking_peers.remove(&who)
handshaking_remove(peers, who) == peers \ {who}

\* on_status_message: the outcome, the reputation change reported, whether
\* the peer is disconnected, and handshaking_peers afterwards.
on_status_message(peers, who, status) ==
    IF who \in context_data_peers
        THEN [outcome |-> "None", report |-> "UNEXPECTED_STATUS", disconnect |-> FALSE,
              handshaking_peers |-> peers]
    ELSE IF status.genesis_hash # GenesisId
        THEN [outcome |-> "None", report |-> "GENESIS_MISMATCH", disconnect |-> TRUE,
              handshaking_peers |-> peers]
    ELSE IF status.version < MIN_VERSION /\ CURRENT_VERSION < status.min_supported_version
        THEN [outcome |-> "None", report |-> "BAD_PROTOCOL", disconnect |-> TRUE,
              handshaking_peers |-> peers]
    ELSE IF who \notin peers
        THEN [outcome |-> "None", report |-> "none", disconnect |-> FALSE,
              handshaking_peers |-> handshaking_remove(peers, who)]
    ELSE [outcome |-> "NotificationStreamOpened", report |-> "none", disconnect |-> FALSE,
          handshaking_peers |-> handshaking_remove(peers, who)]

\* GenericProtoOut::CustomProtocolOpen -> on_peer_connected
OnPeerConnected(who) ==
    /\ who \notin open_peers
    /\ open_peers' = open_peers \cup {who}
    /\ handshaking_peers' = handshaking_peers \cup {who}
    /\ stream_opened' = [stream_opened EXCEPT ![who] = 0]
    /\ protocol_call' = ProtocolCall("on_peer_connected", who, None, "None", "none", FALSE)
    /\ UNCHANGED closing_peers
    /\ UNCHANGED <<store, ops, faults, last, chain, startup_info, callers, dispatching, download>>
    /\ UNCHANGED <<sync, codec, vm>>

\* GenericProtoOut::CustomProtocolClosed -> on_peer_disconnected
OnPeerDisconnected(who) ==
    /\ who \in open_peers
    /\ open_peers' = open_peers \ {who}
    /\ closing_peers' = closing_peers \ {who}
    /\ handshaking_peers' = handshaking_remove(handshaking_peers, who)
    /\ protocol_call' = ProtocolCall("on_peer_disconnected", who, None,
                                     "NotificationStreamClosed", "none", FALSE)
    /\ UNCHANGED stream_opened
    /\ UNCHANGED <<store, ops, faults, last, chain, startup_info, callers, dispatching, download>>
    /\ UNCHANGED <<sync, codec, vm>>

\* GenericProtoOut::CustomMessage -> on_custom_message -> on_status_message.
\* A peer that is being disconnected may still deliver a message before its
\* substream is closed.
OnStatusMessage(who, status) ==
    /\ who \in open_peers
    /\ LET r == on_status_message(handshaking_peers, who, status)
       IN  /\ handshaking_peers' = r.handshaking_peers
           /\ closing_peers' = IF r.disconnect THEN closing_peers \cup {who} ELSE closing_peers
           /\ stream_opened' = IF r.outcome = "NotificationStreamOpened"
                                   THEN [stream_opened EXCEPT ![who] = @ + 1]
                                   ELSE stream_opened
           /\ protocol_call' = ProtocolCall("on_status_message", who, Some(status),
                                            r.outcome, r.report, r.disconnect)
    /\ UNCHANGED open_peers
    /\ UNCHANGED <<store, ops, faults, last, chain, startup_info, callers, dispatching, download>>
    /\ UNCHANGED <<sync, codec, vm>>

\* ------------------ Block Store codecs (storage/src/block/mod.rs, 33-100)
\* Values are encoded to sequences of bytes.  The hash of a header is its
\* id written as a big-endian number of hash_size bytes.
hash_size == 32

MaxSons == 2

RECURSIVE be_bytes(_, _)
be_bytes(n, width) ==
    IF width = 0 THEN <<>> ELSE Append(be_bytes(n \div 256, width - 1), n % 256)

RECURSIVE from_be(_)
from_be(bytes) ==
    IF bytes = <<>> THEN 0
    ELSE 256 * from_be(SubSeq(bytes, 1, Len(bytes) - 1)) + bytes[Len(bytes)]

RECURSIVE le_bytes(_, _)
le_bytes(n, width) ==
    IF width = 0 THEN <<>> ELSE <<n % 256>> \o le_bytes(n \div 256, width - 1)

RECURSIVE from_le(_)
from_le(bytes) ==
    IF bytes = <<>> THEN 0 ELSE Head(bytes) + 256 * from_le(Tail(bytes))

\* HashValue::to_vec, HashValue::from_slice
to_vec(hash) == be_bytes(hash, hash_size)

from_slice(bytes) ==
    IF Len(bytes) = hash_size THEN Ok(<<from_be(bytes)>>) ELSE Err

\* ValueCodec for Vec<HashValue>
RECURSIVE sons_encode_value(_)
sons_encode_value(sons) ==
    IF sons = <<>> THEN <<>> ELSE to_vec(Head(sons)) \o sons_encode_value(Tail(sons))

RECURSIVE sons_decode_loop_lt(_, _, _, _)
sons_decode_loop_lt(data, begin, ends, decoded) ==
    IF ends < Len(data)
        THEN LET hash == from_slice(SubSeq(data, begin + 1, ends))
             IN  IF hash.tag # "Ok" THEN Err
                 ELSE sons_decode_loop_lt(data, ends, ends + hash_size,
                                          Append(decoded, hash.val[1]))
        ELSE Ok(decoded)

RECURSIVE sons_decode_loop(_, _, _, _)
sons_decode_loop(data, begin, ends, decoded) ==
    IF ends <= Len(data)
        THEN LET hash == from_slice(SubSeq(data, begin + 1, ends))
             IN  IF hash.tag # "Ok" THEN Err
                 ELSE sons_decode_loop(data, ends, ends + hash_size,
                                       Append(decoded, hash.val[1]))
        ELSE Ok(decoded)

sons_decode_value(data) == sons_decode_loop(data, 0, hash_size, <<>>)

\* KeyCodec for BlockNumber (u64)
encode_key(block_number) == be_bytes(block_number, 8)

decode_key(data) == IF Len(data) < 8 THEN Err ELSE Ok(<<from_be(SubSeq(data, 1, 8))>>)

\* The header, body and block of id b, as the fields the model keeps.
header_of(b) ==
    [parent_hash |-> parent_hash(b), number |-> number(b),
     difficult |-> difficult(b), total_difficult |-> total_difficult(b)]

body_of(b) == [i \in 1..(b % 3) |-> 16 * b + i]

block_of(b) == [header |-> header_of(b), body |-> body_of(b)]

\* SCSCodec encode / decode: the fields in declaration order, a hash as its
\* bytes, a u64 as 8 and a U256 as 32 little-endian bytes, a vector as its
\* length followed by its elements.
header_size == hash_size + 8 + 32 + 32

scs_encode_header(header) ==
    to_vec(header.parent_hash) \o le_bytes(header.number, 8)
        \o le_bytes(header.difficult, 32) \o le_bytes(header.total_difficult, 32)

scs_decode_header(data) ==
    IF Len(data) # header_size \/ from_slice(SubSeq(data, 1, hash_size)).tag # "Ok"
        THEN Err
        ELSE Ok(<<[parent_hash |-> from_slice(SubSeq(data, 1, hash_size)).val[1],
                   number |-> from_le(SubSeq(data, hash_size + 1, hash_size + 8)),
                   difficult |-> from_le(SubSeq(data, hash_size + 9, hash_size + 40)),
                   total_difficult |-> from_le(SubSeq(data, hash_size + 41, hash_size + 72))]>>)

RECURSIVE scs_encode_items(_)
scs_encode_items(items) ==
    IF items = <<>> THEN <<>> ELSE le_bytes(Head(items), 8) \o scs_encode_items(Tail(items))

scs_encode_body(body) == <<Len(body)>> \o scs_encode_items(body)

scs_decode_body(data) ==
    IF data = <<>> THEN Err
    ELSE IF Len(data) # 1 + 8 * data[1] THEN Err
    ELSE Ok(<<[i \in 1..data[1] |-> from_le(SubSeq(data, 8 * i - 6, 8 * i + 1))]>>)

scs_encode_block(block) == scs_encode_header(block.header) \o scs_encode_body(block.body)

scs_decode_block(data) ==
    IF Len(data) < header_size THEN Err
    ELSE LET header == scs_decode_header(SubSeq(data, 1, header_size))
             body == scs_decode_body(SubSeq(data, header_size + 1, Len(data)))
         IN  IF header.tag # "Ok" \/ body.tag # "Ok" THEN Err
             ELSE Ok(<<[header |-> header.val[1], body |-> body.val[1]]>>)

\* encode_value / encode_key and decode_value / decode_key of each kind of
\* value the Block Store writes.
codec_encode(kind, value) ==
    CASE kind = "sons" -> Ok(sons_encode_value(value))
      [] kind = "number" -> Ok(encode_key(value))
      [] kind = "header" -> Ok(scs_encode_header(value))
      [] kind = "body" -> Ok(scs_encode_body(value))
      [] kind = "block" -> Ok(scs_encode_block(value))

codec_decode(kind, data) ==
    CASE kind = "sons" -> LET sons == sons_decode_value(data)
                          IN  IF sons.tag = "Ok" THEN Ok(<<sons.val>>) ELSE Err
      [] kind = "number" -> decode_key(data)
      [] kind = "header" -> scs_decode_header(data)
      [] kind = "body" -> scs_decode_body(data)
      [] kind = "block" -> scs_decode_block(data)

RECURSIVE SeqsUpTo(_, _)
SeqsUpTo(S, n) ==
    IF n = 0 THEN {<<>>}
    ELSE SeqsUpTo(S, n - 1) \cup {Append(s, x) : s \in {t \in SeqsUpTo(S, n - 1) : Len(t) = n - 1}, x \in S}

\* Block numbers of one to four significant bytes.
BlockNumbers == {0, 1, 255, 256, 65535, 65536, 16777215, 16777216, 2147483647}

\* A value is handed to the store, encoded by put and decoded by get.
CodecPut ==
    /\ codec_bytes = None
    /\ codec_bytes' = Some(codec_encode(codec_value.kind, codec_value.value))
    /\ UNCHANGED <<codec_value, codec_decoded>>
    /\ UNCHANGED <<blocks, sync, vm>>

CodecGet ==
    /\ codec_bytes # None
    /\ codec_bytes[1].tag = "Ok"
    /\ codec_decoded = None
    /\ codec_decoded' = Some(codec_decode(codec_value.kind, codec_bytes[1].val))
    /\ UNCHANGED <<codec_value, codec_bytes>>
    /\ UNCHANGED <<blocks, sync, vm>>

CodecStart(kind, value) ==
    /\ codec_value = [kind |-> kind, value |-> value]
    /\ codec_bytes = None
    /\ codec_decoded = None

\* --------------------- StarcoinVM (vm/vm-runtime/src/starcoin_vm.rs)
\* The chain state holds the on-chain gas schedule (absent, or the cost of
\* one instruction) and the sender's sequence number.  The Move VM is a
\* function of the code, the gas schedule and the state it is given.
MaxCost == 2
MaxSeq == 2

MAXIMUM_NUMBER_OF_GAS_UNITS == 100000000

MAX_TRANSACTION_SIZE_IN_BYTES == 4096

MIN_PRICE_PER_GAS_UNIT == 0

MAX_PRICE_PER_GAS_UNIT == 10000

calculate_intrinsic_gas(raw_bytes_len) ==
    600 + 8 * (IF raw_bytes_len > 600 THEN raw_bytes_len - 600 ELSE 0)

\* Errors the Move VM raises on a transaction's code: one of the execution
\* type (the transaction is kept and charged), one of the invariant
\* violation type (the transaction is discarded).
VMErrors == {"ABORTED", "UNKNOWN_INVARIANT_VIOLATION_ERROR"}

CostTables == 1..MaxCost

GasSchedules == {None} \cup {Some(c) : c \in CostTables}

UserTransaction(payload, signature_ok, sequence_number, max_gas_amount, gas_unit_price, raw_txn_bytes_len, code_len, vm_error) ==
    [kind |-> "UserTransaction", payload |-> payload, signature_ok |-> signature_ok,
     sequence_number |-> sequence_number, max_gas_amount |-> max_gas_amount,
     gas_unit_price |-> gas_unit_price, raw_txn_bytes_len |-> raw_txn_bytes_len,
     code_len |-> code_len, vm_error |-> vm_error]

BlockMetadata(well_formed) == [kind |-> "BlockMetadata", well_formed |-> well_formed]

StateSet(gas_schedule_set) == [kind |-> "StateSet", state_set |-> gas_schedule_set]

UserTransactions ==
    {UserTransaction(payload, TRUE, sequence_number, 1000, 1, 100, code_len, None) :
        payload \in {"Script", "Module"}, sequence_number \in 0..MaxSeq, code_len \in {300, 600}}
    \cup {UserTransaction("Script", FALSE, 0, 1000, 1, 100, 300, None),
          UserTransaction("StateSet", TRUE, 0, 1000, 1, 100, 300, None),
          UserTransaction("Script", TRUE, 0, 1000, 1, MAX_TRANSACTION_SIZE_IN_BYTES + 1, 300, None),
          UserTransaction("Script", TRUE, 0, MAXIMUM_NUMBER_OF_GAS_UNITS + 1, 1, 100, 300, None),
          UserTransaction("Script", TRUE, 0, 599, 1, 100, 300, None),
          UserTransaction("Script", TRUE, 0, 1000, MAX_PRICE_PER_GAS_UNIT + 1, 100, 300, None)}
    \cup {UserTransaction(payload, TRUE, 0, 1000, 1, 100, 300, Some(vm_error)) :
              payload \in {"Script", "Module"}, vm_error \in VMErrors}

\* Signed user transactions at and around each threshold of check_gas.
GasTransactions ==
    {UserTransaction(payload, TRUE, 0, max_gas_amount, gas_unit_price, raw_txn_bytes_len, 300, None) :
        payload \in {"Script", "Module", "StateSet"},
        max_gas_amount \in {599, 600, 607, 608, MAXIMUM_NUMBER_OF_GAS_UNITS,
                            MAXIMUM_NUMBER_OF_GAS_UNITS + 1},
        gas_unit_price \in {MIN_PRICE_PER_GAS_UNIT, MAX_PRICE_PER_GAS_UNIT,
                            MAX_PRICE_PER_GAS_UNIT + 1},
        raw_txn_bytes_len \in {600, 601, MAX_TRANSACTION_SIZE_IN_BYTES,
                               MAX_TRANSACTION_SIZE_IN_BYTES + 1}}

Transactions ==
    UserTransactions
        \cup {BlockMetadata(well_formed) : well_formed \in BOOLEAN}
        \cup {StateSet(g) : g \in GasSchedules}

Keep(code) == <<"Keep", code>>

Discard(code) == <<"Discard", code>>

TransactionOutput(write_set, gas_used, status) ==
    [write_set |-> write_set, gas_used |-> gas_used, status |-> status]

discard_error_output(err) == TransactionOutput(<<>>, 0, Discard(err))

\* fetch_gas_schedule(data_cache).ok(): the schedule read from the state,
\* None when it cannot be loaded.
load_gas_schedule_once(gas_schedule, state) ==
    IF gas_schedule # None THEN gas_schedule ELSE state.gas_schedule

load_gas_schedule(gas_schedule, state) == state.gas_schedule

get_gas_schedule(gas_schedule) ==
    IF gas_schedule # None THEN Ok(gas_schedule) ELSE Err

\* Variant: the gas bound is checked before the size.
check_gas_amount_first(txn) ==
    IF txn.payload = "StateSet" THEN "OK"
    ELSE IF txn.max_gas_amount > MAXIMUM_NUMBER_OF_GAS_UNITS
        THEN "MAX_GAS_UNITS_EXCEEDS_MAX_GAS_UNITS_BOUND"
    ELSE IF txn.raw_txn_bytes_len > MAX_TRANSACTION_SIZE_IN_BYTES
        THEN "EXCEEDED_MAX_TRANSACTION_SIZE"
    ELSE IF txn.max_gas_amount < calculate_intrinsic_gas(txn.raw_txn_bytes_len)
        THEN "MAX_GAS_UNITS_BELOW_MIN_TRANSACTION_GAS_UNITS"
    ELSE IF txn.gas_unit_price < MIN_PRICE_PER_GAS_UNIT
        THEN "GAS_UNIT_PRICE_BELOW_MIN_BOUND"
    ELSE IF txn.gas_unit_price > MAX_PRICE_PER_GAS_UNIT
        THEN "GAS_UNIT_PRICE_ABOVE_MAX_BOUND"
    ELSE "OK"

check_gas(txn) ==
    IF txn.payload = "StateSet" THEN "OK"
    ELSE IF txn.raw_txn_bytes_len > MAX_TRANSACTION_SIZE_IN_BYTES
        THEN "EXCEEDED_MAX_TRANSACTION_SIZE"
    ELSE IF txn.max_gas_amount > MAXIMUM_NUMBER_OF_GAS_UNITS
        THEN "MAX_GAS_UNITS_EXCEEDS_MAX_GAS_UNITS_BOUND"
    ELSE IF txn.max_gas_amount < calculate_intrinsic_gas(txn.raw_txn_bytes_len)
        THEN "MAX_GAS_UNITS_BELOW_MIN_TRANSACTION_GAS_UNITS"
    ELSE IF txn.gas_unit_price < MIN_PRICE_PER_GAS_UNIT
        THEN "GAS_UNIT_PRICE_BELOW_MIN_BOUND"
    ELSE IF txn.gas_unit_price > MAX_PRICE_PER_GAS_UNIT
        THEN "GAS_UNIT_PRICE_ABOVE_MAX_BOUND"
    ELSE "OK"

\* The prologue accepts the transaction whose sequence number is the
\* sender's.
run_prologue(state, txn) ==
    IF txn.sequence_number < state.sequence_number THEN "SEQUENCE_NUMBER_TOO_OLD"
    ELSE IF txn.sequence_number > state.sequence_number THEN "SEQUENCE_NUMBER_TOO_NEW"
    ELSE "OK"

\* The status of the verified payload, Err for a rejected transaction.
verify_transaction_impl(gas_schedule, state, txn) ==
    IF check_gas(txn) # "OK" THEN [tag |-> "Err", val |-> <<check_gas(txn)>>]
    ELSE IF get_gas_schedule(load_gas_schedule(gas_schedule, state)).tag # "Ok"
        THEN [tag |-> "Err", val |-> <<"VM_STARTUP_FAILURE">>]
    ELSE IF txn.payload \notin {"Script", "Module"}
        THEN [tag |-> "Err", val |-> <<"UNREACHABLE">>]
    ELSE IF run_prologue(state, txn) # "OK"
        THEN [tag |-> "Err", val |-> <<run_prologue(state, txn)>>]
    ELSE Ok(<<txn.payload>>)

\* The epilogue's write-set: the sender's sequence number moves on.
make_write_set(state) == <<<<"sequence_number", state.sequence_number + 1>>>>

\* get_transaction_output: gas used is what was consumed, at the txn's price.
get_transaction_output(state, txn, remaining_gas, status) ==
    TransactionOutput(make_write_set(state),
                      (txn.max_gas_amount - remaining_gas) * txn.gas_unit_price,
                      Keep(status))

\* failed_transaction_output: a kept failure is charged and carries the
\* epilogue's writes, a discarded one carries nothing.
failed_transaction_output_charged(state, txn, remaining_gas, error_code) ==
    IF error_code = "UNKNOWN_INVARIANT_VIOLATION_ERROR"
        THEN [get_transaction_output(state, txn, remaining_gas, error_code)
                 EXCEPT !.status = Discard(error_code)]
        ELSE get_transaction_output(state, txn, remaining_gas, error_code)

failed_transaction_output(state, txn, remaining_gas, error_code) ==
    IF error_code = "UNKNOWN_INVARIANT_VIOLATION_ERROR"
        THEN discard_error_output(error_code)
        ELSE get_transaction_output(state, txn, remaining_gas, error_code)

\* A module is published for no gas; a script of code_len instructions costs
\* the schedule's price of each and runs out of gas beyond max_gas_amount.
\* Code that raises an error fails with the gas left at that point.
execute_verified_payload(gas_schedule, state, txn, payload) ==
    IF payload = "Module"
        THEN IF txn.vm_error # None
                 THEN failed_transaction_output(state, txn, txn.max_gas_amount, txn.vm_error[1])
                 ELSE get_transaction_output(state, txn, txn.max_gas_amount, "EXECUTED")
    ELSE IF get_gas_schedule(gas_schedule).tag # "Ok"
        THEN discard_error_output("VM_STARTUP_FAILURE")
    ELSE LET cost == gas_schedule[1] * txn.code_len
         IN  IF cost > txn.max_gas_amount
                 THEN failed_transaction_output(state, txn, 0, "OUT_OF_GAS")
             ELSE IF txn.vm_error # None
                 THEN failed_transaction_output(state, txn, txn.max_gas_amount - cost,
                                                txn.vm_error[1])
                 ELSE get_transaction_output(state, txn, txn.max_gas_amount - cost, "EXECUTED")

\* process_block_metadata, run with CostTable::zero().
process_block_metadata(block_metadata) ==
    IF block_metadata.well_formed
        THEN TransactionOutput(<<>>, 0, Keep("EXECUTED"))
        ELSE discard_error_output("MALFORMED")

RECURSIVE add_write_set(_, _)
add_write_set(state, write_set) ==
    IF write_set = <<>> THEN state
    ELSE add_write_set([state EXCEPT ![Head(write_set)[1]] = Head(write_set)[2]],
                       Tail(write_set))

Executed(output, gas_schedule, state) ==
    [output |-> output, gas_schedule |-> gas_schedule, state |-> state]

\* execute_transaction by a VM whose gas_schedule field is gas_schedule, on
\* the chain state: the output, and the field and the state it leaves.
execute_transaction(gas_schedule, state, txn, apply_ok) ==
    LET loaded == load_gas_schedule(gas_schedule, state)
    IN  IF txn.kind = "UserTransaction"
            THEN IF ~txn.signature_ok
                     THEN Executed(discard_error_output("INVALID_SIGNATURE"), loaded, state)
                 ELSE LET verified_payload == verify_transaction_impl(loaded, state, txn)
                          reloaded == IF check_gas(txn) = "OK"
                                          THEN load_gas_schedule(loaded, state) ELSE loaded
                          result == IF verified_payload.tag = "Ok"
                                        THEN execute_verified_payload(reloaded, state, txn,
                                                                      verified_payload.val[1])
                                        ELSE discard_error_output(verified_payload.val[1])
                      IN  Executed(result, reloaded,
                                   IF result.status[1] = "Keep"
                                       THEN add_write_set(state, result.write_set) ELSE state)
        ELSE IF txn.kind = "BlockMetadata"
            THEN LET result == process_block_metadata(txn)
                 IN  Executed(result, loaded,
                              IF result.status[1] = "Keep"
                                  THEN add_write_set(state, result.write_set) ELSE state)
        ELSE IF apply_ok
            THEN Executed(TransactionOutput(<<>>, 0, Keep("EXECUTED")), loaded,
                          [state EXCEPT !.gas_schedule = txn.state_set])
            ELSE Executed(TransactionOutput(<<>>, 0, Discard("ABORTED")), loaded, state)

\* verify_transaction: None for an accepted transaction, else its status.
verify_transaction(gas_schedule, state, txn) ==
    IF ~txn.signature_ok THEN Some("INVALID_SIGNATURE")
    ELSE LET verified == verify_transaction_impl(gas_schedule, state, txn)
         IN  IF verified.tag = "Ok" \/ verified.val[1] = "SEQUENCE_NUMBER_TOO_NEW"
                 THEN None ELSE Some(verified.val[1])

VmCall(op, txn, before, state, ret) ==
    [op |-> op, txn |-> txn, before |-> before, state |-> state, ret |-> ret]

NoVmCall == VmCall("new", None, None, None, None)

ExecuteTransaction(txn, apply_ok) ==
    /\ chain_state.sequence_number < MaxSeq
    /\ LET e == execute_transaction(vm_gas_schedule, chain_state, txn, apply_ok)
       IN  /\ vm_gas_schedule' = e.gas_schedule
           /\ chain_state' = e.state
           /\ vm_call' = VmCall("execute_transaction", Some(txn), vm_gas_schedule, chain_state,
                                Some(e.output))
    /\ UNCHANGED <<blocks, sync, codec>>

VerifyTransaction(txn) ==
    /\ txn.kind = "UserTransaction"
    /\ vm_gas_schedule' = IF txn.signature_ok /\ check_gas(txn) = "OK"
                           THEN load_gas_schedule(vm_gas_schedule, chain_state)
                           ELSE vm_gas_schedule
    /\ vm_call' = VmCall("verify_transaction", Some(txn), vm_gas_schedule, chain_state,
                         verify_transaction(vm_gas_schedule, chain_state, txn))
    /\ UNCHANGED chain_state
    /\ UNCHANGED <<blocks, sync, codec>>

\* StarcoinVM::new over a chain state
vm_new(state) ==
    /\ vm_gas_schedule = None
    /\ chain_state = state
    /\ vm_call = NoVmCall

ChainStates ==
    {[gas_schedule |-> g, sequence_number |-> 0] : g \in GasSchedules}

InitChain ==
    /\ block_store = {}
    /\ header_store = {}
    /\ sons_store = <<>>
    /\ body_store = {}
    /\ number_store = <<>>
    /\ ops = 0
    /\ faults = 0
    /\ last = NoCall
    /\ branch = None
    /\ cs_head = None
    /\ cs_branches = <<>>
    /\ chain_call = NoChainCall
    /\ startup_info = None
    /\ callers = [t \in Threads |-> NotCalling]
    /\ dispatching = NotDispatching
    /\ download = NoDownload
    /\ handshaking_peers = {}
    /\ open_peers = {}
    /\ closing_peers = {}
    /\ stream_opened = [who \in Remotes |-> 0]
    /\ protocol_call = NoProtocolCall

\* The roots a sync is launched or reset with: the whole tree, or the
\* subtree under its first child.
SyncRoots == {n \in StateNodes : n <= 2}

LocalStores == {<<>>} \cup {[n \in {k} |-> n] : k \in StateNodes}

IdleSync == launch(PlaceholderHash, PlaceholderHash, <<>>)

IdleCodec == CodecStart("none", <<>>)

IdleVm == vm_new([gas_schedule |-> None, sequence_number |-> 0])

Init == InitChain /\ IdleSync /\ IdleCodec /\ IdleVm

\* The Block Store under write failures.
Next ==
    \/ \E h \in Hashes, fails \in SUBSET SaveHeaderWrites : SaveHeader(h, fails)
    \/ \E b \in Hashes, fails \in SUBSET CommitBlockWrites : CommitBlock(b, fails)

Spec == Init /\ [][Next]_vars

\* The Block Store's lookups on a store whose writes all succeed.
NextLookup ==
    \/ \E h \in Hashes : SaveHeader(h, {})
    \/ \E b \in Hashes : CommitBlock(b, {})
    \/ \E id \in Hashes : GetBranchHashes(id)
    \/ \E id1, id2 \in Hashes : GetCommonAncestor(id1, id2)
    \/ GetLatestBlockHeader
    \/ \E overflow_checks \in BOOLEAN : GetLatestBlock(overflow_checks)

SpecLookup == Init /\ [][NextLookup]_vars

\* A BlockChain branch over a store whose writes all succeed.
NextBranch ==
    \/ \E head \in {None} \cup {Some(id) : id \in Hashes} : BlockChainNew(head)
    \/ \E b \in Hashes, verdict \in Verdicts : BlockChainApply(b, verdict, {})

SpecBranch == Init /\ [][NextBranch]_vars

\* The Chain Service over a store that other components commit blocks to.
NextChain ==
    \/ \E b \in Hashes : CommitBlock(b, {})
    \/ \E head \in Hashes : SaveStartupInfo(head)
    \/ ChainServiceNew
    \/ \E b \in Hashes, verdict \in Verdicts : TryConnect(b, verdict)

SpecChain == Init /\ [][NextChain]_vars

\* Lookups by number on a store whose writes and reads may fail.
NextByNumber ==
    \/ \E b \in Hashes, fails \in SUBSET CommitBlockWrites : CommitBlock(b, fails)
    \/ \E n \in 0..MaxHash, read_ok \in BOOLEAN : GetBlockHeaderByNumber(n, read_ok)
    \/ \E n \in 0..MaxHash, read_ok \in BOOLEAN : GetBlockByNumber(n, read_ok)

SpecByNumber == Init /\ [][NextByNumber]_vars

\* Threads saving headers into one Block Store.
NextThreads ==
    \/ \E t \in Threads, h \in Hashes : SaveHeaderPutHeader(t, h)
    \/ \E t \in Threads : SaveHeaderGetSons(t)
    \/ \E t \in Threads : SaveHeaderPutSons(t)

SpecThreads == Init /\ [][NextThreads]_vars

\* The State-Sync Task actor, its peers and the resets sent to it.
InitSync ==
    /\ InitChain
    /\ IdleCodec
    /\ IdleVm
    /\ \E root \in SyncRoots, nodes \in LocalStores : launch(root, root, nodes)

NextSync ==
    \/ \E best_peer \in BestPeerResults : Started(best_peer)
    \/ \E i \in 1..Len(fetching) : \E response \in Responses(fetching[i].node_key) : Respond(i, response)
    \/ \E best_peer \in BestPeerResults, put_ok \in BOOLEAN, done_ok \in BOOLEAN :
           Handle(best_peer, put_ok, done_ok)
    \/ \E root \in SyncRoots : Reset(root, root)

SpecSync == InitSync /\ [][NextSync]_vars

\* The actor is started and handles its mailbox, and every spawned request
\* completes (actix delivers; sync_state_node always sends its event).
StartedStep == \E best_peer \in BestPeerResults : Started(best_peer)

RespondStep == \E i \in 1..Len(fetching) : \E response \in Responses(fetching[i].node_key) : Respond(i, response)

HandleStep == \E best_peer \in BestPeerResults, put_ok \in BOOLEAN, done_ok \in BOOLEAN : Handle(best_peer, put_ok, done_ok)

SyncFairness == WF_vars(StartedStep) /\ WF_vars(RespondStep) /\ WF_vars(HandleStep)

SpecSyncFair == InitSync /\ [][NextSync]_vars /\ SyncFairness

\* A sync that is not reset and finds, at every dispatch, a best peer other
\* than the local node.
AvailablePeers == {Ok(Some(p)) : p \in Peers}

NextSyncLive ==
    \/ \E best_peer \in AvailablePeers : Started(best_peer)
    \/ \E i \in 1..Len(fetching) : \E response \in Responses(fetching[i].node_key) : Respond(i, response)
    \/ \E best_peer \in AvailablePeers, put_ok \in BOOLEAN, done_ok \in BOOLEAN :
           Handle(best_peer, put_ok, done_ok)

SpecSyncLive == InitSync /\ [][NextSyncLive]_vars /\ SyncFairness

\* The Block Store's codecs: a value is encoded, then its encoding decoded.
InitCodec ==
    /\ InitChain
    /\ IdleSync
    /\ IdleVm
    /\ \/ \E sons \in SeqsUpTo(Hashes, MaxSons) : CodecStart("sons", sons)
       \/ \E n \in BlockNumbers \cup {number(b) : b \in Hashes} : CodecStart("number", n)
       \/ \E b \in Hashes : CodecStart("header", header_of(b))
       \/ \E b \in Hashes : CodecStart("body", body_of(b))
       \/ \E b \in Hashes : CodecStart("block", block_of(b))

NextCodec ==
    \/ CodecPut
    \/ CodecGet

SpecCodec == InitCodec /\ [][NextCodec]_vars

\* One StarcoinVM instance verifying and executing transactions.
InitVm ==
    /\ InitChain
    /\ IdleSync
    /\ IdleCodec
    /\ \E state \in ChainStates : vm_new(state)

NextVm ==
    \/ \E txn \in Transactions, apply_ok \in BOOLEAN : ExecuteTransaction(txn, apply_ok)
    \/ \E txn \in UserTransactions : VerifyTransaction(txn)

SpecVm == InitVm /\ [][NextVm]_vars

\* ================================================================ claims
\* The entities the Store holds for a block.
BlockAbsent(b) ==
    /\ b \notin header_store
    /\ b \notin body_store
    /\ b \notin block_store
    /\ \A n \in DOMAIN number_store : number_store[n] # b
    /\ \A p \in DOMAIN sons_store : ~Contains(sons_store[p], b)

SonsSet(p) == IF p \in DOMAIN sons_store THEN SeqSet(sons_store[p]) ELSE {}

Returned(ret) == ret.tag \in {"Ok", "Err"}

\* C1: after any sequence of try_connect calls the service is in a state in
\* which the head's total difficulty is at least that of every chain held
\* in branches.  (The code's try_connect never returns: it panics.)
C1_HeadHeaviest ==
    chain_call.op = "try_connect" =>
        /\ Returned(chain_call.ret)
        /\ \A i \in 1..Len(cs_branches) :
               total_difficult(cs_head[1]) >= total_difficult(cs_branches[i])

\* C2: try_connect of a block that fails header verification or transaction
\* execution returns an error without panicking and leaves head and
\* branches as they were.
C2_InvalidBlockRejected ==
    [][\A b \in Hashes, verdict \in {"bad_header", "bad_execution"} :
           TryConnect(b, verdict) =>
               /\ chain_call'.ret.tag = "Err"
               /\ UNCHANGED <<cs_head, cs_branches>>]_vars

\* C3: the select_head that ends a try_connect of a valid block keeps the
\* chains of {head} + branches (connecting adds at most the new block's
\* chain, a displaced head is demoted into branches) and never leaves the
\* head among the branches.
C3_SelectHeadKeepsChains ==
    [][\A b \in Hashes :
           TryConnect(b, "ok") =>
               /\ chain_call'.ret.tag = "Ok"
               /\ ~Contains(cs_branches', cs_head'[1])
               /\ (cs_head' # cs_head => Contains(cs_branches', cs_head[1]))
               /\ SeqSet(cs_head') \cup SeqSet(cs_branches')
                      \subseteq SeqSet(cs_head) \cup SeqSet(cs_branches) \cup {b}]_vars

\* C4: an apply that fails for bad execution or a root mismatch returns an
\* error, leaves the branch's current header as it was and writes nothing
\* to the Store: a block the Store held nothing for still has no header,
\* body, number-index entry, sons entry or block.
C4_FailedApplyWritesNothing ==
    [][\A b \in Hashes, verdict \in {"bad_execution", "root_mismatch"} :
           BlockChainApply(b, verdict, {}) =>
               /\ chain_call'.ret.tag = "Err"
               /\ branch' = branch
               /\ UNCHANGED store
               /\ (BlockAbsent(b) => BlockAbsent(b)')]_vars

C4_Witness ==
    /\ chain_call.op = "apply"
    /\ chain_call.verdict \in {"bad_execution", "root_mismatch"}
    /\ chain_call.ret.tag = "Err"
    /\ BlockAbsent(chain_call.block)
    /\ branch # None
    /\ branch[1] \in block_store

\* C5: commit_block is atomic over its four writes: Ok means header,
\* number-index entry, body and block are all readable; a failed write
\* means an error is returned and none of the four is visible.
C5_CommitBlockAtomic ==
    last.op = "commit_block" =>
        LET b == last.args[1]
            numbered == number(b) \in DOMAIN number_store /\ number_store[number(b)] = b
        IN  /\ last.ret.tag = "Ok" =>
                   b \in header_store /\ numbered /\ b \in body_store /\ b \in block_store
            /\ last.fails \cap {"header", "number", "body", "block"} # {} =>
                   /\ last.ret.tag = "Err"
                   /\ b \notin header_store /\ ~numbered
                   /\ b \notin body_store /\ b \notin block_store

\* C6: in a three-block fork where C is built on A and D is built on B, A's
\* other child, get_common_ancestor(C, D) returns A.
ThreeBlockFork(c, d) ==
    LET a == parent_hash(c)
        b == parent_hash(d)
    IN  /\ a \in Hashes
        /\ b # c
        /\ parent_hash(b) = a
        /\ {c, b, d} \subseteq header_store
        /\ {c, b} \subseteq SonsSet(a)
        /\ d \in SonsSet(b)

C6_CommonAncestorOfFork ==
    \A c, d \in Hashes :
        (last.op = "get_common_ancestor" /\ last.args = <<c, d>> /\ ThreeBlockFork(c, d))
            => last.ret = Ok(Some(parent_hash(c)))

C6_Witness ==
    \E c, d \in Hashes :
        /\ last.op = "get_common_ancestor"
        /\ last.args = <<c, d>>
        /\ ThreeBlockFork(c, d)
        /\ last.ret = Ok(Some(parent_hash(c)))

\* C7: block B has exactly the two recorded children C1 and C2 and C1's
\* header is stored.
TwoRecordedChildren(c1) ==
    /\ c1 \in header_store
    /\ parent_hash(c1) \in DOMAIN sons_store
    /\ Len(sons_store[parent_hash(c1)]) = 2
    /\ \E c2 \in Hashes \ {c1} : SonsSet(parent_hash(c1)) = {c1, c2}

C8_SaveHeaderTwiceSameSons ==
    [][\A h \in Hashes, fails \in SUBSET SaveHeaderWrites :
           (SaveHeader(h, fails) /\ last = Call("save_header", <<h>>, {}, Ok(None)))
               => SonsSet(parent_hash(h))' = SonsSet(parent_hash(h))]_vars

C8_Witness ==
    \E h \in Hashes :
        /\ last = Call("save_header", <<h>>, {}, Ok(None))
        /\ parent_hash(h) \in DOMAIN sons_store
        /\ Cardinality({i \in 1..Len(sons_store[parent_hash(h)]) :
                            sons_store[parent_hash(h)][i] = h}) = 2

\* C9: get_latest_block_header() is None on an empty store and is the
\* genesis header, of number 0, once the genesis block is committed.
EmptyStore ==
    /\ block_store = {}
    /\ header_store = {}
    /\ body_store = {}
    /\ DOMAIN sons_store = {}
    /\ DOMAIN number_store = {}

GenesisSaved ==
    /\ DOMAIN number_store = {0}
    /\ number_store[0] = GenesisId
    /\ GenesisId \in header_store
    /\ GenesisId \in block_store

C9_LatestBlockHeader ==
    last.op = "get_latest_block_header" =>
        /\ EmptyStore => last.ret = Ok(None)
        /\ GenesisSaved => last.ret = Ok(Some(GenesisId)) /\ number(last.ret.val[1]) = 0

C9_Witness ==
    /\ last.op = "get_latest_block_header"
    /\ GenesisSaved
    /\ last.ret = Ok(Some(GenesisId))

\* C10: get_latest_block() on an empty store fails with an error result:
\* it neither panics nor looks up the block number max_number - 1.
C10_LatestBlockGraceful ==
    (last.op = "get_latest_block" /\ EmptyStore) => last.ret.tag = "Err"

\* ------------------------------------------------------ State-Sync claims
\* The nodes on the paths from node n down to the leaves of its tree.
RECURSIVE StateTree(_)
StateTree(n) == {n} \cup UNION {StateTree(c) : c \in SeqSet(all_child(n))}

Stored(n) == n \in DOMAIN state_nodes /\ state_nodes[n] = n

\* C11: whenever the state-sync task has reported completion for the target
\* state root, every node on every path from that root to a leaf is in the
\* local state node store.
C11_SyncComplete ==
    sync_done => \A n \in StateTree(roots.state) : Stored(n)

C11_Witness ==
    /\ sync_done
    /\ resets > 0
    /\ inner(roots.state) = "Internal"
    /\ \A n \in StateTree(roots.state) : Stored(n)

\* The inputs of one handling of an event.
HandleInputs == BestPeerResults \X BOOLEAN \X BOOLEAN

\* The event at the head of the mailbox answers the request that is in
\* flight for its peer.
InFlight(task_event) ==
    /\ task_event.peer_id \in DOMAIN state_sync_task.syncing_nodes
    /\ state_sync_task.syncing_nodes[task_event.peer_id][1] = task_event.node_key

\* C12: a node returned by a peer is persisted only if its own hash is the
\* requested key: every stored node is stored under its own hash, a response
\* whose hash differs reaches the actor as a failed delivery, and handling a
\* failed delivery of the request in flight stores nothing and puts the
\* requested key, with its flag, at the back of the pending queue.
C12_HashCheckedDelivery ==
    [][/\ \A k \in DOMAIN state_nodes' : state_nodes'[k] = k
       /\ \A i \in 1..Len(fetching) : \A response \in Responses(fetching[i].node_key) :
              ( /\ Respond(i, response)
                /\ actor = "running"
                /\ response.tag = "Ok"
                /\ response.val[1] # fetching[i].node_key )
              => mailbox'[Len(mailbox')] = new_state(fetching[i].peer_id, fetching[i].node_key, None)
       /\ \A inp \in HandleInputs :
              ( /\ Handle(inp[1], inp[2], inp[3])
                /\ Head(mailbox).state_node = None
                /\ InFlight(Head(mailbox)) )
              => LET task_event == Head(mailbox)
                     entry == state_sync_task.syncing_nodes[task_event.peer_id]
                     after == handle_state_sync(state_sync_task, state_nodes, task_event, inp[2]).task
                 IN  /\ state_nodes' = state_nodes
                     /\ after.wait_2_sync = Append(state_sync_task.wait_2_sync, entry)
                     /\ task_event.peer_id \notin DOMAIN after.syncing_nodes
                     /\ sync_call'.handled = "requeue"]_vars

C12_Witness ==
    /\ sync_call.op = "handle"
    /\ sync_call.handled = "requeue"
    /\ sync_call.event[1].peer_id \in Peers
    /\ state_nodes # <<>>

AllPeers == {SelfPeerId} \cup Peers

\* The requests made to a peer and not yet answered to the actor: fetches
\* still awaiting the peer and response events not yet handled.
Outstanding(p) ==
    Cardinality({i \in 1..Len(fetching) : fetching[i].peer_id = p})
        + Cardinality({i \in 1..Len(mailbox) : mailbox[i].peer_id = p})

\* C13: at every moment, across resets too, each peer has at most one
\* outstanding request of the state task, and a dispatch never writes over
\* an in-flight entry: the peer a key is handed to has no entry in the
\* in-flight map when the key is handed to it.
C13_OneRequestPerPeer ==
    [][/\ \A p \in AllPeers : Outstanding(p)' <= 1
       /\ \A inp \in HandleInputs :
              Handle(inp[1], inp[2], inp[3])
              => LET after == handle_state_sync(state_sync_task, state_nodes, Head(mailbox), inp[2])
                     e == exe_state_sync_task(after.task, after.nodes, inp[1])
                 IN  (~sync_end(after.task) /\ e.fate \in {"local", "dispatched"})
                     => /\ e.peer_id \notin DOMAIN after.task.syncing_nodes
                        /\ state_sync_task'.syncing_nodes[e.peer_id] = Head(after.task.wait_2_sync)]_vars

C13_Witness ==
    /\ resets > 0
    /\ sync_call.op = "handle"
    /\ sync_call.handled = "discard"
    /\ sync_call.fate = "dispatched"
    /\ Outstanding(sync_call.peer_id) = 1
    /\ sync_call.event[1].peer_id = sync_call.peer_id

\* How many times a task holds a value, pending or in flight.
Held(t, value) ==
    Cardinality({i \in 1..Len(t.wait_2_sync) : t.wait_2_sync[i] = value})
        + Cardinality({p \in DOMAIN t.syncing_nodes : t.syncing_nodes[p] = value})

\* What a dispatch makes of the value at the head of task t's pending
\* queue: the value has left the queue and is in flight with exactly one
\* peer (this node itself when the local store holds the node), so the task
\* holds it as often as before.
KeptByDispatch(t, after) ==
    t.wait_2_sync # <<>> =>
        LET value == Head(t.wait_2_sync)
        IN  /\ Held(after, value) = Held(t, value)
            /\ \E p \in AllPeers :
                   /\ p \in DOMAIN after.syncing_nodes
                   /\ after.syncing_nodes[p] = value
                   /\ p = SelfPeerId <=> value[1] \in DOMAIN state_nodes'

\* C14: a key leaves the pending queue only by being dispatched to exactly
\* one peer and recorded in the in-flight map, or by being fulfilled from
\* the local store: no popped key is dropped.
C14_PoppedKeyKept ==
    [][/\ \A best_peer \in BestPeerResults :
              Started(best_peer) => KeptByDispatch(state_sync_task, state_sync_task')
       /\ \A inp \in HandleInputs :
              Handle(inp[1], inp[2], inp[3])
              => LET after == handle_state_sync(state_sync_task, state_nodes, Head(mailbox), inp[2])
                 IN  ~sync_end(after.task) => KeptByDispatch(after.task, state_sync_task')]_vars

\* A best-peer lookup that failed, or that found no best peer.
NoBestPeer(best_peer) == best_peer = Err \/ best_peer = Ok(None)

\* The value at the head of task t's pending queue needs a peer.
NeedsPeer(t, nodes) == t.wait_2_sync # <<>> /\ Head(t.wait_2_sync)[1] \notin DOMAIN nodes

\* C15: a transient network error is never fatal to the sync task and leaves
\* the affected key queued: a dispatch that finds no best peer, or whose
\* best-peer lookup fails, leaves the actor alive and the key in the pending
\* queue, and a failed fetch leaves the actor alive and the key pending or
\* in flight again.
C15_TransientErrorsRetried ==
    [][/\ \A best_peer \in BestPeerResults :
              ( /\ Started(best_peer)
                /\ NoBestPeer(best_peer)
                /\ NeedsPeer(state_sync_task, state_nodes) )
              => /\ actor' # "panicked"
                 /\ Contains(state_sync_task'.wait_2_sync, Head(state_sync_task.wait_2_sync))
       /\ \A inp \in HandleInputs :
              Handle(inp[1], inp[2], inp[3])
              => LET task_event == Head(mailbox)
                     after == handle_state_sync(state_sync_task, state_nodes, task_event, inp[2])
                 IN  /\ (task_event.state_node = None /\ InFlight(task_event))
                         => /\ actor' # "panicked"
                            /\ Held(state_sync_task',
                                    state_sync_task.syncing_nodes[task_event.peer_id]) > 0
                     /\ ( /\ ~sync_end(after.task)
                          /\ NoBestPeer(inp[1])
                          /\ NeedsPeer(after.task, after.nodes) )
                         => /\ actor' # "panicked"
                            /\ Contains(state_sync_task'.wait_2_sync,
                                        Head(after.task.wait_2_sync))]_vars

\* C16: immediately after reset(state_root, accumulator_root) the in-flight
\* map of the state task and of the accumulator task is empty, and the
\* pending queue of each holds exactly its new root.
C16_ResetRestartsBothTasks ==
    [][\A state_root \in StateNodes, accumulator_root \in AccumulatorNodes :
           Reset(state_root, accumulator_root)
           => /\ state_sync_task'.syncing_nodes = <<>>
              /\ state_sync_task'.wait_2_sync = <<<<state_root, TRUE>>>>
              /\ accumulator_sync_task'.syncing_nodes = <<>>
              /\ accumulator_sync_task'.wait_2_sync = <<accumulator_root>>]_vars

\* C17: completion is signalled (state_sync_done succeeds and the actor
\* stops) only while the state task's pending queue and in-flight map are
\* both empty.
C17_DoneOnlyWhenEmpty ==
    (sync_done \/ actor = "stopped")
        => /\ state_sync_task.wait_2_sync = <<>>
           /\ DOMAIN state_sync_task.syncing_nodes = {}

C17_Witness ==
    /\ sync_done
    /\ actor = "stopped"
    /\ sync_call.op = "handle"
    /\ sync_call.handled = "stored"
    /\ sync_call.fate = "end"

\* The accumulator nodes reachable from node n, placeholder children left out.
RECURSIVE AccumulatorTree(_)
AccumulatorTree(n) ==
    {n} \cup UNION {AccumulatorTree(c) : c \in {left(n), right(n)} \ {PlaceholderHash}}

\* C18: when the task signals completion, every accumulator node reachable
\* from the target accumulator root is in the local accumulator node store.
C18_AccumulatorComplete ==
    sync_done => \A n \in AccumulatorTree(roots.accumulator) : n \in DOMAIN accumulator_nodes

C21_WriteSetOnlyOnKeep ==
    vm_call.op = "execute_transaction"
    => LET output == vm_call.ret[1]
           txn == vm_call.txn[1]
       IN  /\ output.status[1] = "Discard"
                  => /\ output.write_set = <<>>
                     /\ output.gas_used = 0
                     /\ chain_state = vm_call.state
           /\ output.status[1] = "Keep"
                  => chain_state = IF txn.kind = "StateSet"
                                       THEN [vm_call.state EXCEPT !.gas_schedule = txn.state_set]
                                       ELSE add_write_set(vm_call.state, output.write_set)

\* A script that passed verification, ran under a loaded gas schedule and
\* hit an invariant violation was discarded.
C21_Witness ==
    /\ vm_call.op = "execute_transaction"
    /\ vm_call.ret[1].status = Discard("UNKNOWN_INVARIANT_VIOLATION_ERROR")
    /\ vm_call.txn[1].payload = "Script"
    /\ vm_call.state.gas_schedule # None

\* ------------------------------------------- Block Store claims, continued
\* C22: once no save_header call is running, two distinct children of one
\* parent whose headers were saved are both in the parent's sons entry.
C22_NoLostSon ==
    (\A t \in Threads : callers[t].pc = "idle")
    => \A c, d \in header_store :
           c # d /\ parent_hash(c) = parent_hash(d)
           => /\ parent_hash(c) \in DOMAIN sons_store
              /\ Contains(sons_store[parent_hash(c)], c)
              /\ Contains(sons_store[parent_hash(c)], d)

\* C23: a Chain Service constructed without error has as head the block the
\* persisted StartupInfo names, genesis when there is none.
C23_HeadFromStartupInfo ==
    chain_call.op = "ChainServiceImpl::new" /\ chain_call.ret.tag = "Ok"
    => cs_head = IF startup_info = None THEN Some(GenesisId) ELSE startup_info

\* C24: a lookup by number never panics, and when the number index names a
\* hash whose header (get_block_header_by_number) or block
\* (get_block_by_number) is not stored, it returns an error.
C24_DanglingNumberIsError ==
    /\ last.op = "get_block_header_by_number"
           => /\ last.ret.tag # "Panic"
              /\ (/\ last.args[1] \in DOMAIN number_store
                  /\ number_store[last.args[1]] \notin header_store)
                     => last.ret.tag = "Err"
    /\ last.op = "get_block_by_number"
           => /\ last.ret.tag # "Panic"
              /\ (/\ last.args[1] \in DOMAIN number_store
                  /\ number_store[last.args[1]] \notin block_store)
                     => last.ret.tag = "Err"

\* ------------------------------------------- State-Sync claims, liveness
\* A handled event that put the key back: the response was a failure, or
\* the node could not be written.
FailedHandle ==
    /\ HandleStep
    /\ sync_call'.handled \in {"requeue", "put failed"}

C26_ResetRestarts ==
    (sync_call.op = "reset")
        ~> ~Contains(state_sync_task.wait_2_sync, <<roots.state, TRUE>>)

\* ------------------------------------------- Block Store lookups, continued
\* A block and its ancestors, by the parent links of the headers.
RECURSIVE AncestorsOrSelf(_)
AncestorsOrSelf(h) ==
    IF h = ZeroHash THEN {} ELSE {h} \cup AncestorsOrSelf(parent_hash(h))

\* h is a common ancestor (or one of the two) and none of its descendants is.
LowestCommonAncestor(h, a, b) ==
    /\ h \in AncestorsOrSelf(a) \cap AncestorsOrSelf(b)
    /\ \A d \in (AncestorsOrSelf(a) \cap AncestorsOrSelf(b)) \ {h} : d \in AncestorsOrSelf(h)

\* C27: a result Ok(Some(h)) of get_common_ancestor(a, b) is the lowest
\* common ancestor of a and b, and get_common_ancestor(b, a) returns the same.
C27_LowestCommonAncestor ==
    (last.op = "get_common_ancestor" /\ last.ret.tag = "Ok" /\ last.ret.val # None)
    => /\ LowestCommonAncestor(last.ret.val[1], last.args[1], last.args[2])
       /\ get_common_ancestor(last.args[2], last.args[1]) = last.ret

\* A hash whose sons entry holds more than one child.
ForkPoint(p) == p \in DOMAIN sons_store /\ Len(sons_store[p]) > 1

\* The hashes the walk of get_branch_hashes(id) visits after id, as far as x.
WalkTo(id, x) ==
    {p \in (AncestorsOrSelf(id) \cup {ZeroHash}) \ {id} :
        x = ZeroHash \/ x \in AncestorsOrSelf(p)}

C29_SonsDistinct ==
    \A p \in DOMAIN sons_store :
        \A i, j \in 1..Len(sons_store[p]) :
            sons_store[p][i] = sons_store[p][j] => i = j

\* The highest number a block was committed at.
MaxCommittedNumber == CHOOSE n \in DOMAIN number_store : \A m \in DOMAIN number_store : m <= n

\* C30: once blocks are committed, the length of the number index is the
\* highest committed number plus one, and get_latest_block_header returns a
\* header of that number.
C30_LengthIsMaxNumberPlusOne ==
    DOMAIN number_store # {}
    => /\ get_len(number_store) = MaxCommittedNumber + 1
       /\ get_latest_block_header.tag = "Ok"
       /\ get_latest_block_header.val # None
       /\ number(get_latest_block_header.val[1]) = MaxCommittedNumber

\* ------------------------------------------- decoding stored sons values
\* decode_value is handed the bytes the key-value store returns for a sons
\* entry: the encoding of a list of hashes followed by up to MaxTrail bytes
\* that do not fill a hash (a truncated or over-long stored value).
MaxTrail == 2

TrailingBytes == SeqsUpTo({0, 1}, MaxTrail)

InitDecode ==
    /\ InitChain
    /\ IdleSync
    /\ IdleVm
    /\ \E sons \in SeqsUpTo(Hashes, MaxSons), trail \in TrailingBytes :
          /\ codec_value = [kind |-> "sons", value |-> sons]
          /\ codec_bytes = Some(Ok(sons_encode_value(sons) \o trail))
          /\ codec_decoded = None

NextDecode == CodecGet

SpecDecode == InitDecode /\ [][NextDecode]_vars

\* C31: decoding a stored sons value whose length is not a whole multiple of
\* the hash size is a decode error; trailing bytes are never dropped to give
\* a shorter list.
C31_PartialChunkIsError ==
    /\ codec_decoded # None
    /\ codec_value.kind = "sons"
    /\ Len(codec_bytes[1].val) % hash_size # 0
    => codec_decoded[1] = Err

\* ------------------------------------------- handling of delivered nodes
\* The pending queue after a handling that leaves queue q to the dispatch
\* that follows it: the dispatch pops the front.
AfterDispatch(q) == IF q = <<>> THEN <<>> ELSE Tail(q)

\* C32: when persisting a delivered node fails, the in-flight entry is
\* removed and the same node key, with the same global flag, is put at the
\* back of the pending queue; none of the node's children is enqueued and
\* nothing is stored.
C32_PutFailureRequeues ==
    [][\A inp \in HandleInputs :
          ( /\ Handle(inp[1], inp[2], inp[3])
            /\ InFlight(Head(mailbox))
            /\ Head(mailbox).state_node # None
            /\ ~inp[2] )
          => LET task_event == Head(mailbox)
                 entry == state_sync_task.syncing_nodes[task_event.peer_id]
                 after == handle_state_sync(state_sync_task, state_nodes, task_event, inp[2]).task
             IN  /\ sync_call'.handled = "put failed"
                 /\ state_nodes' = state_nodes
                 /\ task_event.peer_id \notin DOMAIN after.syncing_nodes
                 /\ after.wait_2_sync = Append(state_sync_task.wait_2_sync, entry)
                 /\ entry[1] = task_event.node_key
                 /\ state_sync_task'.wait_2_sync = AfterDispatch(Append(state_sync_task.wait_2_sync, entry))]_vars

C32_Witness ==
    /\ sync_call.op = "handle"
    /\ sync_call.handled = "put failed"
    /\ sync_call.event[1].peer_id \in Peers
    /\ inner(sync_call.event[1].node_key) = "Internal"
    /\ Len(state_sync_task.wait_2_sync) > 0
    /\ state_sync_task.wait_2_sync[Len(state_sync_task.wait_2_sync)][1] = sync_call.event[1].node_key

\* The keys the claim expects a persisted node, requested with flag
\* is_global, to enqueue.
StorageSubRoots(n) ==
    IF account_state(n).tag = "Ok"
        THEN SelectSeq(account_state(n).val,
                       LAMBDA key : key # None /\ key # Some(PlaceholderHash))
        ELSE <<>>

ExpectedKeys(n, is_global) ==
    IF inner(n) = "Internal"
        THEN [i \in 1..Len(all_child(n)) |-> <<all_child(n)[i], is_global>>]
    ELSE IF is_global
        THEN [i \in 1..Len(StorageSubRoots(n)) |-> <<StorageSubRoots(n)[i][1], FALSE>>]
    ELSE <<>>

\* C33: a persisted internal node enqueues all its children with the flag it
\* was requested with; a persisted leaf requested as global enqueues exactly
\* the account's storage sub-roots that are present and are not the
\* placeholder, each as not global; a leaf requested as not global enqueues
\* nothing.  So a key enqueued as global is a child of an internal node that
\* was itself requested as global.
C33_GlobalFlagPropagation ==
    [][\A inp \in HandleInputs :
          ( /\ Handle(inp[1], inp[2], inp[3])
            /\ sync_call'.handled = "stored" )
          => LET task_event == Head(mailbox)
                 entry == state_sync_task.syncing_nodes[task_event.peer_id]
                 enqueued == ExpectedKeys(task_event.node_key, entry[2])
                 after == handle_state_sync(state_sync_task, state_nodes, task_event, inp[2]).task
             IN  /\ after.wait_2_sync = state_sync_task.wait_2_sync \o enqueued
                 /\ state_sync_task'.wait_2_sync =
                        IF sync_end(after) THEN <<>>
                        ELSE AfterDispatch(state_sync_task.wait_2_sync \o enqueued)
                 /\ \A i \in 1..Len(enqueued) :
                        enqueued[i][2] => entry[2] /\ inner(task_event.node_key) = "Internal"]_vars

C33_Witness ==
    /\ sync_call.op = "handle"
    /\ sync_call.handled = "stored"
    /\ inner(sync_call.event[1].node_key) = "Leaf"
    /\ account_state(sync_call.event[1].node_key).tag = "Ok"
    /\ sync_call.event[1].peer_id \in Peers
    /\ \/ Contains(state_sync_task.wait_2_sync, <<sync_call.event[1].node_key - 1, FALSE>>)
       \/ \E p \in DOMAIN state_sync_task.syncing_nodes :
              state_sync_task.syncing_nodes[p] = <<sync_call.event[1].node_key - 1, FALSE>>

\* C34: in every reachable state the state task's in-flight map holds at
\* most one entry, and at most one request or response event is under way:
\* each handled event triggers at most one new dispatch, so nodes are
\* fetched one at a time.
C34_OneInFlight ==
    /\ Cardinality(DOMAIN state_sync_task.syncing_nodes) <= 1
    /\ Len(fetching) + Len(mailbox) <= 1

C34_Witness ==
    /\ sync_call.op = "handle"
    /\ sync_call.handled = "stored"
    /\ sync_call.fate = "dispatched"
    /\ DOMAIN state_sync_task.syncing_nodes = {sync_call.peer_id}
    /\ Len(state_sync_task.wait_2_sync) > 0
    /\ Len(fetching) = 1

\* C35: a response to a request that was dispatched before a reset is
\* discarded when it is handled after the reset: it stores no node, enqueues
\* no key and removes no in-flight entry of the new target.  A reset
\* dispatches nothing, so whatever is under way when the first event after
\* a reset is handled was dispatched before that reset, and it is the only
\* such event.
C35_StaleResponseDiscarded ==
    [][\A inp \in HandleInputs :
          ( /\ Handle(inp[1], inp[2], inp[3])
            /\ sync_call.op = "reset" )
          => LET after == handle_state_sync(state_sync_task, state_nodes, Head(mailbox), inp[2])
             IN  /\ Len(fetching) + Len(mailbox) = 1
                 /\ sync_call'.handled = "discard"
                 /\ after.task = state_sync_task
                 /\ state_nodes' = state_nodes
                 /\ state_sync_task'.wait_2_sync = <<>>
                 /\ \A p \in DOMAIN state_sync_task'.syncing_nodes :
                        state_sync_task'.syncing_nodes[p] = <<roots.state, TRUE>>]_vars

C35_Witness ==
    /\ sync_call.op = "handle"
    /\ sync_call.handled = "discard"
    /\ resets > 0
    /\ sync_call.event[1].peer_id \in Peers
    /\ sync_call.event[1].state_node = Some(sync_call.event[1].node_key)
    /\ sync_call.event[1].node_key \notin DOMAIN state_nodes
    /\ roots.state # sync_call.event[1].node_key

\* ------------------------------------------------- the sync task's mutex
\* The actor with its dispatch in steps: a spawned fetch may answer while
\* the actor is blocked in the best-peer lookup.
NextLock ==
    \/ StartedAwait
    \/ \E put_ok \in BOOLEAN, done_ok \in BOOLEAN : HandleAwait(put_ok, done_ok)
    \/ \E best_peer \in BestPeerResults : BestPeerReturns(best_peer)
    \/ \E i \in 1..Len(fetching) : \E response \in Responses(fetching[i].node_key) : Respond(i, response)
    \/ \E root \in SyncRoots : ResetBetween(root, root)

SpecLock == InitSync /\ [][NextLock]_vars

\* C36: the sync task's mutex is held only across synchronous critical
\* sections: it is never held while the actor waits on a network round
\* trip, the best-peer lookup of a dispatch included.
C36_NoLockAcrossAwait ==
    dispatching.waiting => ~dispatching.lock

\* --------------------------------------------------- block-body download
NextBody ==
    \/ \E peers \in SeqsUpTo(BodyPeers, MaxBodyPeers) : SyncBody(peers)
    \/ \E answer \in BodyAnswers : SendRequest(answer)

SpecBody == Init /\ [][NextBody]_vars

\* C37: in a block-body download over a list of peers, a request that fails
\* or times out fails for that peer only: peers are tried in list order, the
\* next peer is tried after a failure, and the bodies of the first peer that
\* answers with a batch are applied exactly once, after which no further
\* peer is contacted.
C37_NextPeerAfterFailure ==
    /\ download.contacted = SubSeq(download.peers, 1, Len(download.contacted))
    /\ Len(download.applied) <= 1
    /\ download.applied # <<>>
           => /\ download.state = "ended"
              /\ download.applied[1] = download.contacted[Len(download.contacted)]
    /\ (download.state \notin {"none", "running"} /\ download.applied = <<>>)
           => download.contacted = download.peers

\* ------------------------------------------------------------- gas checks
\* The VM verifying transactions at and around the thresholds of check_gas.
NextGas == \E txn \in GasTransactions : VerifyTransaction(txn)

SpecGas == InitVm /\ [][NextGas]_vars

\* The checks the claim lists, in its order, each with its status.
GasChecks(txn) ==
    << <<txn.raw_txn_bytes_len > MAX_TRANSACTION_SIZE_IN_BYTES, "EXCEEDED_MAX_TRANSACTION_SIZE">>,
       <<txn.max_gas_amount > MAXIMUM_NUMBER_OF_GAS_UNITS, "MAX_GAS_UNITS_EXCEEDS_MAX_GAS_UNITS_BOUND">>,
       <<txn.max_gas_amount < calculate_intrinsic_gas(txn.raw_txn_bytes_len),
         "MAX_GAS_UNITS_BELOW_MIN_TRANSACTION_GAS_UNITS">>,
       <<txn.gas_unit_price < MIN_PRICE_PER_GAS_UNIT, "GAS_UNIT_PRICE_BELOW_MIN_BOUND">>,
       <<txn.gas_unit_price > MAX_PRICE_PER_GAS_UNIT, "GAS_UNIT_PRICE_ABOVE_MAX_BOUND">> >>

Violated(txn) == {i \in 1..5 : GasChecks(txn)[i][1]}

FirstViolated(txn) == CHOOSE i \in Violated(txn) : \A j \in Violated(txn) : i <= j

\* C38: a user transaction whose payload is not a StateSet is rejected when
\* its size exceeds MAX_TRANSACTION_SIZE_IN_BYTES, its max_gas_amount exceeds
\* MAXIMUM_NUMBER_OF_GAS_UNITS or is below the intrinsic gas for its size, or
\* its gas_unit_price is outside [MIN_PRICE_PER_GAS_UNIT,
\* MAX_PRICE_PER_GAS_UNIT], with the status of the first violated check in
\* that order; a transaction violating none, and every StateSet payload,
\* passes the gas checks.
C38_CheckGasThresholds ==
    (vm_call.op = "verify_transaction" /\ vm_call.txn[1].signature_ok)
    => LET txn == vm_call.txn[1]
       IN  IF txn.payload # "StateSet" /\ Violated(txn) # {}
               THEN vm_call.ret = Some(GasChecks(txn)[FirstViolated(txn)][2])
               ELSE \A i \in 1..5 : vm_call.ret # Some(GasChecks(txn)[i][2])

C38_Witness ==
    /\ vm_call.op = "verify_transaction"
    /\ vm_call.txn[1].payload = "Script"
    /\ vm_call.txn[1].raw_txn_bytes_len = MAX_TRANSACTION_SIZE_IN_BYTES
    /\ vm_call.txn[1].max_gas_amount = MAXIMUM_NUMBER_OF_GAS_UNITS + 1
    /\ vm_call.txn[1].gas_unit_price = MAX_PRICE_PER_GAS_UNIT + 1
    /\ vm_call.ret = Some("MAX_GAS_UNITS_EXCEEDS_MAX_GAS_UNITS_BOUND")

\* ------------------------------------------------------ protocol handshake
\* The Protocol handling what GenericProto reports: substreams opened and
\* closed, and Status messages of the peers with an open substream.
NextProtocol ==
    \/ \E who \in Remotes : OnPeerConnected(who)
    \/ \E who \in Remotes : OnPeerDisconnected(who)
    \/ \E who \in Remotes, status \in Statuses : OnStatusMessage(who, status)

SpecProtocol == Init /\ [][NextProtocol]_vars

\* C39: NotificationStreamOpened is emitted for a peer only in response to a
\* Status message received while the peer is in handshaking_peers and whose
\* genesis hash is the local one; accepting the status removes the peer from
\* handshaking_peers, so at most one stream-opened event is emitted per
\* connection; a Status with another genesis hash gets the peer reported
\* and disconnected, with no stream-opened event.
C39_OneStreamOpenedPerConnection ==
    [][/\ \A who \in Remotes : stream_opened'[who] <= 1
       /\ \A who \in Remotes :
              stream_opened'[who] > stream_opened[who]
              => /\ protocol_call'.op = "on_status_message"
                 /\ protocol_call'.who = who
                 /\ protocol_call'.outcome = "NotificationStreamOpened"
       /\ \A who \in Remotes, status \in Statuses :
              OnStatusMessage(who, status)
              => /\ protocol_call'.outcome = "NotificationStreamOpened"
                     => /\ who \in handshaking_peers
                        /\ who \notin handshaking_peers'
                        /\ status.genesis_hash = GenesisId
                        /\ stream_opened'[who] = stream_opened[who] + 1
                 /\ protocol_call'.outcome # "NotificationStreamOpened"
                     => stream_opened' = stream_opened
                 /\ status.genesis_hash # GenesisId
                     => /\ protocol_call'.outcome = "None"
                        /\ protocol_call'.report = "GENESIS_MISMATCH"
                        /\ who \in closing_peers']_vars

C39_Witness ==
    /\ protocol_call.op = "on_status_message"
    /\ protocol_call.outcome = "None"
    /\ protocol_call.status[1] = Status(CURRENT_VERSION, MIN_VERSION, GenesisId)
    /\ stream_opened[protocol_call.who] = 1
    /\ protocol_call.who \in open_peers
    /\ protocol_call.who \notin handshaking_peers

\* C40: a peer whose Status reports a version below MIN_VERSION, or a
\* min_supported_version above CURRENT_VERSION, is reported with
\* BAD_PROTOCOL, disconnected, and gets no NotificationStreamOpened event.
C40_UnsupportedVersionRejected ==
    ( /\ protocol_call.op = "on_status_message"
      /\ protocol_call.status[1].genesis_hash = GenesisId
      /\ \/ protocol_call.status[1].version < MIN_VERSION
         \/ protocol_call.status[1].min_supported_version > CURRENT_VERSION )
    => /\ protocol_call.report = "BAD_PROTOCOL"
       /\ protocol_call.disconnect
       /\ protocol_call.outcome # "NotificationStreamOpened"

====
